---------------------------- MODULE Spec2Model ----------------------------
(***************************************************************************)
(* A model of the nodas engine's World (engine/src/world.rs): the model    *)
(* and material registries, the entity store, the ncollide collision world *)
(* that push_entity / update_entity_world_transform keep in step with the  *)
(* entities' Transforms, picking by raycast, and render; and of Transform  *)
(* (engine/src/transform.rs) with its lazily written GPU buffer.           *)
(*                                                                         *)
(* Space is the x-z plane in half units: a unit cube centred on the origin *)
(* has its corners at (+-1, +-1).  Rotations are quarter turns about the y *)
(* axis, so every posed box stays axis aligned and the integer arithmetic  *)
(* is exact.                                                               *)
(***************************************************************************)
EXTENDS Integers, Sequences, FiniteSets, TLC

VARIABLES
    models,           \* World.models: ModelIdent -> Model  (loaded names only)
    materials,        \* World.materials: the MaterialIdents that are loaded
    world,            \* World.world: the entity store, entity id -> components
    collision_world,  \* World.collision_world: the collision objects, by handle
    broad_phase,      \* the collision world's broad phase: handle -> proxy AABB
    render_pass,      \* the bind/draw calls the last render recorded
    ret,              \* the last World call and what it returned
    panicked,         \* the process has panicked (unwrap/expect/index)
    moved,            \* history: the re-posing update_entity_world_transform
                      \* made last, while only refreshes and raycasts follow
    transform,        \* one Transform driven directly by its own methods
    gpu_writes,       \* number of Buffer::write calls made by `transform`
    setters_since,    \* setter calls on `transform` since its last buffer()
    pc,               \* main.rs: where the engine is, in Engine::new or in a frame
    frame,            \* main.rs: what the current frame has done so far
    geometry,         \* one Geometry, built by Geometry::new or by scaled
    program           \* noder: one Program (version and storage list)

vars == << models, materials, world, collision_world, broad_phase,
           render_pass, ret, panicked, moved, transform, gpu_writes,
           setters_since, pc, frame, geometry, program >>

world_vars == << models, materials, world, collision_world, broad_phase,
                 render_pass, panicked, moved >>

transform_vars == << transform, gpu_writes, setters_since >>

engine_vars == << pc, frame >>

geometry_vars == << geometry >>

noder_vars == << program >>

\* What a call on World leaves alone.
off_world_vars == << transform_vars, engine_vars, geometry_vars, noder_vars >>

---------------------------------------------------------------------------
(* Bounds of the model.                                                    *)

MaxEntities == 2

MaxGpuWrites == 3

MaxSetters == 2

MaxAbsent == 1

---------------------------------------------------------------------------
(* Option<T>: None is the empty sequence, Some(v) the one-element one.     *)

None == << >>

Some(v) == << v >>

IsSome(o) == o # << >>

Unwrap(o) == o[1]

Min(S) == CHOOSE m \in S : \A n \in S : m <= n

Max(S) == CHOOSE m \in S : \A n \in S : n <= m

Vec(x, z) == [x |-> x, z |-> z]

---------------------------------------------------------------------------
(* nalgebra values used by Transform: an Isometry3 is a translation and a  *)
(* rotation; a Matrix4 is kept as the affine map it denotes on the plane,  *)
(*   (x, z) |-> (a*x + b*z + tx, c*x + d*z + tz).                          *)

\* The rotation a rotation vector denotes: angles that differ by a full
\* turn give the same rotation.
UnitQuaternion(rotation) == rotation % 4

\* Quarter-turn rotation about y as a linear map on (x, z).
RotationMatrix(q) ==
    CASE q = 0 -> [a |->  1, b |->  0, c |->  0, d |->  1]
      [] q = 1 -> [a |->  0, b |->  1, c |-> -1, d |->  0]
      [] q = 2 -> [a |-> -1, b |->  0, c |->  0, d |-> -1]
      [] q = 3 -> [a |->  0, b |-> -1, c |->  1, d |->  0]

Isometry_to_matrix(iso) ==
    LET r == RotationMatrix(iso.rotation)
    IN  [a |-> r.a, b |-> r.b, c |-> r.c, d |-> r.d,
         tx |-> iso.translation.x, tz |-> iso.translation.z]

Matrix_new_nonuniform_scaling(s) ==
    [a |-> s.x, b |-> 0, c |-> 0, d |-> s.z, tx |-> 0, tz |-> 0]

\* m * n: apply n first, then m.
Matrix_mul(m, n) ==
    [a  |-> m.a * n.a + m.b * n.c,
     b  |-> m.a * n.b + m.b * n.d,
     c  |-> m.c * n.a + m.d * n.c,
     d  |-> m.c * n.b + m.d * n.d,
     tx |-> m.a * n.tx + m.b * n.tz + m.tx,
     tz |-> m.c * n.tx + m.d * n.tz + m.tz]

\* The image of point p under an isometry.
Isometry_apply(iso, p) ==
    LET m == Isometry_to_matrix(iso)
    IN  Vec(m.a * p.x + m.b * p.z + m.tx, m.c * p.x + m.d * p.z + m.tz)

---------------------------------------------------------------------------
(* Transform (engine/src/transform.rs).  `buffer` is the content of the    *)
(* GPU buffer: the instance matrix last uploaded.                          *)

Transform_isometry(t) ==
    [translation |-> t.translation, rotation |-> UnitQuaternion(t.rotation)]

Transform_scale(t) == t.scale

Transform_matrix(t) ==
    Matrix_mul(Isometry_to_matrix(Transform_isometry(t)),
               Matrix_new_nonuniform_scaling(t.scale))

Transform_new ==
    LET translation == Vec(0, 0)
        scale == Vec(1, 1)
    IN  [translation |-> translation,
         rotation    |-> 0,
         scale       |-> scale,
         buffer      |-> Matrix_mul(Matrix_new_nonuniform_scaling(scale),
                             Isometry_to_matrix([translation |-> translation,
                                                 rotation |-> 0])),
         dirty       |-> FALSE]

Transform_set_position(t, position) ==
    [t EXCEPT !.dirty = TRUE, !.translation = position]

\* set_rotation that forgets the dirty flag.
Transform_set_rotation_clean(t, rotation) ==
    [t EXCEPT !.rotation = rotation]

Transform_set_rotation(t, rotation) ==
    [t EXCEPT !.dirty = TRUE, !.rotation = rotation]

Transform_set_scale(t, scale) ==
    [t EXCEPT !.dirty = TRUE, !.scale = scale]

\* Whether buffer() uploads the matrix.
Transform_buffer_writes(t) == t.dirty

\* buffer() that clears the dirty flag and uploads nothing.
Transform_buffer_flag_only(t) == [t EXCEPT !.dirty = FALSE]

\* The Transform after buffer().
Transform_buffer(t) ==
    IF t.dirty
    THEN [t EXCEPT !.dirty = FALSE, !.buffer = Transform_matrix(t)]
    ELSE t

---------------------------------------------------------------------------
(* Collider shapes.  A TriMesh is kept as the set of its vertex positions; *)
(* the meshes used are boxes, so a mesh fills its bounding box.            *)

\* TriMesh::scaled: every vertex multiplied component-wise by `scale`.
TriMesh_scaled(mesh, scale) ==
    { Vec(p.x * scale.x, p.z * scale.z) : p \in mesh }

\* The bounding box of `mesh` posed by isometry m.
TriMesh_aabb(m, mesh) ==
    LET pts == { Isometry_apply(m, p) : p \in mesh }
    IN  [mins |-> Vec(Min({ p.x : p \in pts }), Min({ p.z : p \in pts })),
         maxs |-> Vec(Max({ p.x : p \in pts }), Max({ p.z : p \in pts }))]

\* A ray starts at `origin` and runs towards -z.  The time of impact of the
\* ray with a box, None when it misses or the impact is beyond max_toi.
AABB_toi_with_ray(aabb, ray, max_toi) ==
    IF ray.origin.x < aabb.mins.x \/ ray.origin.x > aabb.maxs.x
       \/ ray.origin.z < aabb.mins.z
    THEN None
    ELSE LET toi == IF ray.origin.z >= aabb.maxs.z
                    THEN ray.origin.z - aabb.maxs.z
                    ELSE ray.origin.z - aabb.mins.z
         IN  IF toi <= max_toi THEN Some(toi) ELSE None

\* RayCast::toi_and_normal_with_ray of a (non-empty) box mesh posed by m.
TriMesh_toi_with_ray(mesh, m, ray, max_toi) ==
    IF mesh = {} THEN None
    ELSE AABB_toi_with_ray(TriMesh_aabb(m, mesh), ray, max_toi)

Box(hx, hz) == { Vec(-hx, -hz), Vec(hx, -hz), Vec(-hx, hz), Vec(hx, hz) }

\* The box mesh of half extents (hx, hz) centred at (cx, cz).
BoxAt(cx, cz, hx, hz) == { Vec(cx + p.x, cz + p.z) : p \in Box(hx, hz) }

---------------------------------------------------------------------------
(* ncollide CollisionGroups over a small universe of group ids.            *)

GroupIds == {0, 1}

CollisionGroups_new ==
    [membership |-> GroupIds, whitelist |-> GroupIds, blacklist |-> {}]

\* A filter that belongs to group 1 only and whitelists nothing.
CollisionGroups_hidden ==
    [membership |-> {1}, whitelist |-> {}, blacklist |-> {}]

CollisionGroups_can_interact_with_groups(g, other) ==
    /\ g.membership \cap other.whitelist # {}
    /\ other.membership \cap g.whitelist # {}
    /\ g.membership \cap other.blacklist = {}
    /\ other.membership \cap g.blacklist = {}

---------------------------------------------------------------------------
(* Assets: what the OBJ loader returns for a path, and Model::load.        *)

ModelNames == {"block", "pizza_box"}

MaterialNames == {"gold", "wood"}

AssetPaths ==
    {"cube.obj", "pizza.obj", "empty.obj", "plain.obj", "rails.obj", "steps.obj",
     "nest.obj"}

\* tobj::load_obj(path): the submeshes (vertex positions, optional material
\* id) and the materials of the file.
Asset(path) ==
    CASE path = "cube.obj" ->
           [models    |-> << [positions |-> Box(1, 1), material_id |-> Some(0)] >>,
            materials |-> << "cube_mtl" >>]
      [] path = "pizza.obj" ->
           [models    |-> << [positions |-> Box(2, 1), material_id |-> Some(0)],
                             [positions |-> Box(1, 2), material_id |-> Some(1)] >>,
            materials |-> << "box_mtl", "lid_mtl" >>]
      [] path = "empty.obj" ->
           [models |-> << >>, materials |-> << >>]
      [] path = "plain.obj" ->
           [models    |-> << [positions |-> Box(1, 1), material_id |-> None] >>,
            materials |-> << >>]
      [] path = "rails.obj" ->
           [models    |-> << [positions   |-> BoxAt(-3, 0, 1, 1),
                              material_id |-> Some(0)],
                             [positions   |-> BoxAt(3, 0, 1, 1),
                              material_id |-> Some(0)] >>,
            materials |-> << "rail_mtl" >>]
      [] path = "nest.obj" ->
           [models    |-> << [positions   |-> BoxAt(0, 0, 2, 1),
                              material_id |-> Some(0)],
                             [positions   |-> BoxAt(1, 0, 1, 2),
                              material_id |-> Some(0)] >>,
            materials |-> << "nest_mtl" >>]
      [] path = "steps.obj" ->
           [models    |-> << [positions   |-> BoxAt(3, 0, 1, 1),
                              material_id |-> Some(0)],
                             [positions   |-> BoxAt(0, 0, 1, 2),
                              material_id |-> Some(0)],
                             [positions   |-> BoxAt(-3, 0, 1, 3),
                              material_id |-> Some(0)] >>,
            materials |-> << "step_mtl" >>]

\* Option::unwrap_or
unwrap_or(o, default) == IF IsSome(o) THEN Unwrap(o) ELSE default

\* TriMesh::aabb: the bounding box of the mesh in its own frame.
TriMesh_local_aabb(mesh) ==
    TriMesh_aabb([translation |-> Vec(0, 0), rotation |-> 0], mesh)

\* Twice the centre of a bounding box along axis 0 (x), 1 (y) or 2 (z); the
\* y axis is not kept, every box is centred on it.
AABB_center2(aabb, axis) ==
    CASE axis = 0 -> aabb.mins.x + aabb.maxs.x
      [] axis = 1 -> 0
      [] axis = 2 -> aabb.mins.z + aabb.maxs.z

\* The k-th smallest element of a non-empty sequence of numbers.
KthSmallest(vals, k) ==
    CHOOSE v \in { vals[i] : i \in DOMAIN vals } :
        /\ Cardinality({ i \in DOMAIN vals : vals[i] < v }) < k
        /\ Cardinality({ i \in DOMAIN vals : vals[i] <= v }) >= k

\* Twice ncollide's utils::median: the middle element, or the mean of the
\* two middle elements.
Median2(vals) ==
    LET n == Len(vals)
    IN  IF n % 2 = 0
        THEN KthSmallest(vals, n \div 2) + KthSmallest(vals, n \div 2 + 1)
        ELSE 2 * KthSmallest(vals, (n + 1) \div 2)

\* The loop of ncollide's median partitioning: a leaf whose centre is below
\* the median goes left, one above it right, and leaves on the median go
\* right and left in turn.
RECURSIVE median_partitioning_loop(_, _, _, _, _, _, _)
median_partitioning_loop(leaves, i, axis, median2, left, right, insert_left) ==
    IF i > Len(leaves) THEN [left |-> left, right |-> right]
    ELSE LET pos2 == 2 * AABB_center2(leaves[i].bounding_volume, axis)
         IN  IF pos2 < median2 \/ (pos2 = median2 /\ insert_left)
             THEN median_partitioning_loop(leaves, i + 1, axis, median2,
                      Append(left, leaves[i]), right, FALSE)
             ELSE median_partitioning_loop(leaves, i + 1, axis, median2,
                      left, Append(right, leaves[i]), TRUE)

\* ncollide's median partitioning of two or more leaves at `depth`; a side
\* left empty takes the last leaf of the other.
median_partitioning(depth, leaves) ==
    LET axis == depth % 3
        median2 == Median2([i \in DOMAIN leaves |->
                       AABB_center2(leaves[i].bounding_volume, axis)])
        parts == median_partitioning_loop(leaves, 1, axis, median2,
                                          << >>, << >>, FALSE)
    IN  IF parts.left = << >>
        THEN [left  |-> << parts.right[Len(parts.right)] >>,
              right |-> SubSeq(parts.right, 1, Len(parts.right) - 1)]
        ELSE IF parts.right = << >>
        THEN [left  |-> SubSeq(parts.left, 1, Len(parts.left) - 1),
              right |-> << parts.left[Len(parts.left)] >>]
        ELSE parts

\* The leaves of the tree built over `leaves` from `depth` on, in the order
\* the construction stores them: those of the left part, then those of the
\* right part.
RECURSIVE BVT_leaves(_, _)
BVT_leaves(depth, leaves) ==
    IF Len(leaves) <= 1 THEN leaves
    ELSE LET parts == median_partitioning(depth, leaves)
         IN  BVT_leaves(depth + 1, parts.left)
                 \o BVT_leaves(depth + 1, parts.right)

\* BVT::new_balanced over (index, bounding box) pairs; the tree is kept as
\* its vector of leaves.
BVT_new_balanced(leaves) == BVT_leaves(0, leaves)

\* The bvt Geometry::new and Geometry::scaled build over the colliders.
Geometry_bvt(colliders) ==
    BVT_new_balanced([i \in DOMAIN colliders |->
                         [data            |-> i - 1,
                          bounding_volume |-> TriMesh_local_aabb(colliders[i])]])

\* Geometry::new: one collider and one render mesh per submesh, in order,
\* and the tree over the colliders' boxes.
Geometry_new(obj_models) ==
    LET colliders == [i \in DOMAIN obj_models |-> obj_models[i].positions]
    IN  [colliders |-> colliders,
         meshes    |-> [i \in DOMAIN obj_models |->
                           [material |-> unwrap_or(obj_models[i].material_id, 0)]],
         bvt       |-> Geometry_bvt(colliders)]

\* Geometry::scaled with one factor for every axis.
Geometry_scaled_uniform(g, scale) ==
    LET colliders == [i \in DOMAIN g.colliders |->
                         TriMesh_scaled(g.colliders[i], Vec(scale.x, scale.x))]
    IN  [g EXCEPT !.colliders = colliders, !.bvt = Geometry_bvt(colliders)]

\* Geometry::scaled: a clone whose colliders are scaled and whose tree is
\* built anew.
Geometry_scaled(g, scale) ==
    LET colliders == [i \in DOMAIN g.colliders |->
                         TriMesh_scaled(g.colliders[i], scale)]
    IN  [g EXCEPT !.colliders = colliders, !.bvt = Geometry_bvt(colliders)]

\* CompositeShape::aabb_at(i): the box of the tree's i-th leaf.
Geometry_aabb_at(g, i) == g.bvt[i + 1].bounding_volume

\* Geometry's ray cast that reports the nearest intersection.
Geometry_toi_nearest(g, m, ray, max_toi) ==
    LET tois == { Unwrap(TriMesh_toi_with_ray(g.colliders[i], m, ray, max_toi)) :
                    i \in { j \in DOMAIN g.colliders :
                              IsSome(TriMesh_toi_with_ray(g.colliders[j], m,
                                                          ray, max_toi)) } }
    IN  IF tois = {} THEN None ELSE Some(Min(tois))

\* RayCast::toi_and_normal_with_ray for Geometry, from collider i on: the
\* intersection of the first collider that reports one.
RECURSIVE Geometry_toi_from(_, _, _, _, _)
Geometry_toi_from(g, i, m, ray, max_toi) ==
    IF i > Len(g.colliders) THEN None
    ELSE LET hit == TriMesh_toi_with_ray(g.colliders[i], m, ray, max_toi)
         IN  IF IsSome(hit) THEN hit
             ELSE Geometry_toi_from(g, i + 1, m, ray, max_toi)

Geometry_toi_and_normal_with_ray(g, m, ray, max_toi) ==
    Geometry_toi_from(g, 1, m, ray, max_toi)

\* Model::load.  mesh_colliders is the per-submesh collider list World reads.
Model_load(path) ==
    LET obj == Asset(path)
        built == Geometry_new(obj.models)
    IN  [mesh_colliders |-> built.colliders,
         meshes         |-> built.meshes,
         materials      |-> obj.materials]

---------------------------------------------------------------------------
(* noder (noder/src/node/mod.rs): the declarations of a GLSL program and   *)
(* Program::codegen.  A String is a string; the text codegen builds is     *)
(* kept as the sequence of the pieces it is put together from, with every  *)
(* ";" and "\n" that a format string, a join separator or a push_str       *)
(* contributes a piece of its own.                                         *)

\* The position of v in seq.
Index(seq, v) == CHOOSE i \in DOMAIN seq : seq[i] = v

\* Ord on integers and on enum variants: -1, 0 or 1.
cmp(a, b) == IF a < b THEN -1 ELSE IF a > b THEN 1 ELSE 0

\* enum Type, in declaration order (the order derive(Ord) gives).
Types == << "Vec2", "Vec3", "Vec4", "Texture2D", "Sampler" >>

Type_codegen(ty) ==
    CASE ty = "Vec2"      -> "vec2"
      [] ty = "Vec3"      -> "vec3"
      [] ty = "Vec4"      -> "vec4"
      [] ty = "Texture2D" -> "texture2D"
      [] ty = "Sampler"   -> "sampler"

\* enum StorageQualifier, in declaration order.
StorageQualifiers == << "In", "Out", "Uniform" >>

StorageQualifier_codegen(q) ==
    CASE q = "Uniform" -> "uniform"
      [] q = "In"      -> "in"
      [] q = "Out"     -> "out"

\* enum Layout, in declaration order, and its two variants.
Layouts == << "UniformBinding", "Location" >>

UniformBinding(set, binding) ==
    [variant |-> "UniformBinding", set |-> set, binding |-> binding]

Location(loc) == [variant |-> "Location", loc |-> loc]

Layout_codegen(layout) ==
    IF layout.variant = "Location"
    THEN "layout(location = " \o ToString(layout.loc) \o ")"
    ELSE "layout(set = " \o ToString(layout.set) \o ", binding = "
             \o ToString(layout.binding) \o ")"

\* derive(Ord) on Layout: by variant, then by the fields in order.
Layout_cmp(a, b) ==
    IF a.variant # b.variant
    THEN cmp(Index(Layouts, a.variant), Index(Layouts, b.variant))
    ELSE IF a.variant = "Location" THEN cmp(a.loc, b.loc)
    ELSE IF a.set # b.set THEN cmp(a.set, b.set)
    ELSE cmp(a.binding, b.binding)

\* The binding names used, in the byte order String's Ord compares by.
Bindings ==
    << "f_color", "f_normal", "s_diffuse", "t_diffuse", "v_position",
       "v_tex_coords" >>

String_cmp(a, b) == cmp(Index(Bindings, a), Index(Bindings, b))

\* struct Storage, its fields in declaration order.
Storage(ty, layout, storage_qualifier, binding) ==
    [ty |-> ty, layout |-> layout, storage_qualifier |-> storage_qualifier,
     binding |-> binding]

\* derive(Ord) on Storage: ty, layout, storage_qualifier, binding.
Storage_cmp(a, b) ==
    IF a.ty # b.ty THEN cmp(Index(Types, a.ty), Index(Types, b.ty))
    ELSE IF Layout_cmp(a.layout, b.layout) # 0
    THEN Layout_cmp(a.layout, b.layout)
    ELSE IF a.storage_qualifier # b.storage_qualifier
    THEN cmp(Index(StorageQualifiers, a.storage_qualifier),
             Index(StorageQualifiers, b.storage_qualifier))
    ELSE String_cmp(a.binding, b.binding)

Storage_codegen(st) ==
    Layout_codegen(st.layout) \o " "
        \o StorageQualifier_codegen(st.storage_qualifier) \o " "
        \o Type_codegen(st.ty) \o " " \o st.binding

\* `sorted` with st put in after the entries that are not greater.
RECURSIVE sort_insert(_, _)
sort_insert(sorted, st) ==
    IF sorted = << >> THEN << st >>
    ELSE IF Storage_cmp(Head(sorted), st) <= 0
    THEN << Head(sorted) >> \o sort_insert(Tail(sorted), st)
    ELSE << st >> \o sorted

\* sort that leaves the entries in the order they were given.
sort_unsorted(storage) == storage

\* Vec::sort: the entries in ascending order, equal ones in their old order.
RECURSIVE sort(_)
sort(storage) ==
    IF storage = << >> THEN << >>
    ELSE sort_insert(sort(SubSeq(storage, 1, Len(storage) - 1)),
                     storage[Len(storage)])

\* iter().filter(|st| st.storage_qualifier == q)
filter(storage, q) ==
    SelectSeq(storage, LAMBDA st : st.storage_qualifier = q)

\* map(|i| format!("\n{}", i.codegen())): one text per entry.
declarations(storage) ==
    [i \in DOMAIN storage |-> << "\n", Storage_codegen(storage[i]) >>]

\* [String]::join(sep): the texts with sep between neighbours.
RECURSIVE join(_, _)
join(texts, sep) ==
    IF texts = << >> THEN << >>
    ELSE IF Len(texts) = 1 THEN texts[1]
    ELSE texts[1] \o sep \o join(Tail(texts), sep)

\* Program::codegen: the pieces of the text it returns.
Program_codegen(p) ==
    LET sorted == sort(p.storage)
        ins == filter(sorted, "In")
        outs == filter(sorted, "Out")
        uniforms == filter(sorted, "Uniform")
        ins_comp == join(declarations(ins), << ";" >>) \o << ";", "\n" >>
        outs_comp == join(declarations(outs), << ";", "\n" >>)
                         \o << ";", "\n" >>
        uniforms_comp == join(declarations(uniforms), << ";" >>)
                             \o << ";", "\n" >>
    IN  << "#version ", ToString(p.version), "\n" >>
            \o ins_comp \o outs_comp \o uniforms_comp

\* The String the pieces make up.
RECURSIVE String(_)
String(pieces) ==
    IF pieces = << >> THEN "" ELSE Head(pieces) \o String(Tail(pieces))

\* Program { version, storage }
Program(version, storage) == [version |-> version, storage |-> storage]

---------------------------------------------------------------------------
(* The initial state: World::new() and a fresh Transform.                  *)

NoCall == [op |-> "none"]

\* Engine::render's locals at the start of a frame: the entity the raycast
\* picked, whether the inspector changed something (updated_transform) and
\* on which entity, the entity update_entity_world_transform was called
\* for, what World::render returned, and whether the queue was submitted.
NoFrame ==
    [picked |-> None, updated_transform |-> FALSE, edited |-> None,
     synced |-> None, rendered |-> "none", submitted |-> FALSE]

Init ==
    /\ models = << >>
    /\ materials = {}
    /\ world = << >>
    /\ collision_world = << >>
    /\ broad_phase = << >>
    /\ render_pass = << >>
    /\ ret = NoCall
    /\ panicked = FALSE
    /\ moved = None
    /\ transform = Transform_new
    /\ gpu_writes = 0
    /\ setters_since = 0
    /\ pc = "load_block"
    /\ frame = NoFrame
    /\ geometry = Geometry_new(<< >>)
    /\ program = Program(450, << >>)

\* The loaded ModelIdents.
LoadedModels == DOMAIN models

\* HashMap::insert on a function: add or replace one key.
Insert(map, key, value) ==
    [k \in DOMAIN map \cup {key} |-> IF k = key THEN value ELSE map[k]]

---------------------------------------------------------------------------
(* World::load_model and World::load_material_raw.                         *)

load_model(name, path) ==
    /\ ~panicked
    /\ models' = Insert(models, name, Model_load(path))
    /\ ret' = [op |-> "load_model", name |-> name]
    /\ moved' = None
    /\ UNCHANGED << materials, world, collision_world, broad_phase,
                    render_pass, panicked >>

load_material_raw(name) ==
    /\ ~panicked
    /\ materials' = materials \cup {name}
    /\ ret' = [op |-> "load_material_raw", name |-> name]
    /\ moved' = None
    /\ UNCHANGED << models, world, collision_world, broad_phase,
                    render_pass, panicked >>

---------------------------------------------------------------------------
(* World::push_entity.                                                     *)

\* The components a caller hands to push_entity; each may be absent.
Components(transform_, model_ident, material_ident, collision_groups) ==
    [transform        |-> transform_,
     model_ident      |-> model_ident,
     material_ident   |-> material_ident,
     collision_groups |-> collision_groups]

\* AddColliders that adds each collider as loaded, not scaled.
AddColliders_unscaled(objects, colliders, isometry, scale, groups, entity) ==
    objects \o [i \in DOMAIN colliders |->
                   [position         |-> isometry,
                    shape            |-> colliders[i],
                    collision_groups |-> groups,
                    data             |-> entity]]

\* AddColliders with the loop left after its first turn.
AddColliders_first_only(objects, colliders, isometry, scale, groups, entity) ==
    IF colliders = << >> THEN objects
    ELSE Append(objects,
                [position         |-> isometry,
                 shape            |-> TriMesh_scaled(Head(colliders), scale),
                 collision_groups |-> groups,
                 data             |-> entity])

\* CollisionWorld::add, once per collider of the model: the objects after
\* the loop of push_entity.
RECURSIVE AddColliders(_, _, _, _, _, _)
AddColliders(objects, colliders, isometry, scale, groups, entity) ==
    IF colliders = << >> THEN objects
    ELSE AddColliders(
             Append(objects,
                    [position         |-> isometry,
                     shape            |-> TriMesh_scaled(Head(colliders), scale),
                     collision_groups |-> groups,
                     data             |-> entity]),
             Tail(colliders), isometry, scale, groups, entity)

\* What push_entity returns for `components`, pushed as entity `entity`.
push_entity_result(components, entity) ==
    IF ~IsSome(components.transform) \/ ~IsSome(components.model_ident)
    THEN [op |-> "push_entity", res |-> "Err", err |-> "ComponentMissing",
          entity |-> entity]
    ELSE IF Unwrap(components.model_ident) \notin LoadedModels
    THEN [op |-> "push_entity", res |-> "Err", err |-> "ModelNotFound",
          entity |-> entity]
    ELSE [op |-> "push_entity", res |-> "Ok", err |-> "", entity |-> entity]

\* push_entity_objects with an object for the entity added ahead of the
\* model lookup.
push_entity_objects_early(components, entity) ==
    IF ~IsSome(components.transform) \/ ~IsSome(components.model_ident)
    THEN collision_world
    ELSE LET t == Unwrap(components.transform)
             groups == unwrap_or(components.collision_groups,
                                 CollisionGroups_new)
             early == Append(collision_world,
                             [position         |-> Transform_isometry(t),
                              shape            |-> {},
                              collision_groups |-> groups,
                              data             |-> entity])
         IN  IF Unwrap(components.model_ident) \notin LoadedModels
             THEN early
             ELSE AddColliders(
                      early,
                      models[Unwrap(components.model_ident)].mesh_colliders,
                      Transform_isometry(t), Transform_scale(t), groups,
                      entity)

\* The collision objects after push_entity: on success one more per
\* collider of the model, and the same as before when it returns an error.
push_entity_objects(components, entity) ==
    IF push_entity_result(components, entity).res = "Ok"
    THEN LET t == Unwrap(components.transform)
         IN  AddColliders(
                 collision_world,
                 models[Unwrap(components.model_ident)].mesh_colliders,
                 Transform_isometry(t), Transform_scale(t),
                 unwrap_or(components.collision_groups, CollisionGroups_new),
                 entity)
    ELSE collision_world

\* push_entity that records handles counted from the first one again.
push_entity_handles_restart(components) ==
    LET entity == Len(world) + 1
        objects == push_entity_objects(components, entity)
        handles == [i \in 1..(Len(objects) - Len(collision_world)) |-> i]
    IN  /\ ~panicked
        /\ Len(world) < MaxEntities
        /\ ret' = push_entity_result(components, entity)
        /\ moved' = None
        /\ world' = Append(world,
               [transform        |-> components.transform,
                model_ident      |-> components.model_ident,
                material_ident   |-> components.material_ident,
                collision_groups |-> components.collision_groups,
                collider_group   |-> Some(handles)])
        /\ collision_world' = objects
        /\ broad_phase' = broad_phase \o [i \in DOMAIN handles |-> None]
        /\ UNCHANGED << models, materials, render_pass, panicked >>

push_entity(components) ==
    LET entity == Len(world) + 1
        objects == push_entity_objects(components, entity)
        \* the handles CollisionWorld::add returned, in order
        handles == [i \in 1..(Len(objects) - Len(collision_world)) |->
                       Len(collision_world) + i]
    IN  /\ ~panicked
        /\ Len(world) < MaxEntities
        /\ ret' = push_entity_result(components, entity)
        /\ moved' = None
        /\ world' = Append(world,
               [transform        |-> components.transform,
                model_ident      |-> components.model_ident,
                material_ident   |-> components.material_ident,
                collision_groups |-> components.collision_groups,
                collider_group   |-> Some(handles)])
        /\ collision_world' = objects
        /\ broad_phase' = broad_phase \o [i \in DOMAIN handles |-> None]
        /\ UNCHANGED << models, materials, render_pass, panicked >>

---------------------------------------------------------------------------
(* Component access through World::entry: what the inspector does with the *)
(* picked entity's Entry (main.rs), and component removal.                 *)

Entities == 1..Len(world)

\* An Entity that is not in this World's store.
ForeignEntity == MaxEntities + 1

\* main.rs: the inspector writes position, rotation and scale back through
\* the three setters and sets the dirty flag.
inspect_transform(entity, position, rotation, scale) ==
    /\ ~panicked
    /\ entity \in Entities
    /\ IsSome(world[entity].transform)
    /\ LET t == Transform_set_scale(
                    Transform_set_rotation(
                        Transform_set_position(
                            Unwrap(world[entity].transform), position),
                        rotation),
                    scale)
       IN  world' = [world EXCEPT ![entity].transform =
                                      Some([t EXCEPT !.dirty = TRUE])]
    /\ ret' = [op |-> "inspect_transform"]
    /\ moved' = None
    /\ UNCHANGED << models, materials, collision_world, broad_phase,
                    render_pass, panicked >>

\* The entity's ModelIdent string is overwritten with `name`.
inspect_model(entity, name) ==
    /\ ~panicked
    /\ entity \in Entities
    /\ IsSome(world[entity].model_ident)
    /\ world' = [world EXCEPT ![entity].model_ident = Some(name)]
    /\ ret' = [op |-> "inspect_model"]
    /\ moved' = None
    /\ UNCHANGED << models, materials, collision_world, broad_phase,
                    render_pass, panicked >>

ComponentTypes == {"transform", "model_ident", "collider_group"}

\* The (entity, component) pairs of the store whose component is absent.
Absent ==
    { ec \in Entities \X ComponentTypes : ~IsSome(world[ec[1]][ec[2]]) }

\* Entry::remove_component::<T>() on the entity's entry.
remove_component(entity, component) ==
    /\ ~panicked
    /\ entity \in Entities
    /\ Cardinality(Absent) < MaxAbsent
    /\ IsSome(world[entity][component])
    /\ world' = [world EXCEPT ![entity][component] = None]
    /\ ret' = [op |-> "remove_component"]
    /\ moved' = None
    /\ UNCHANGED << models, materials, collision_world, broad_phase,
                    render_pass, panicked >>

---------------------------------------------------------------------------
(* World::update_entity_world_transform.                                   *)

\* SyncColliders that writes the pose to every object of the collision
\* world.
SyncColliders_every(objects, handles, i, t, model) ==
    [objects |-> [h \in DOMAIN objects |->
                     [objects[h] EXCEPT !.position = Transform_isometry(t)]],
     panic   |-> FALSE]

\* SyncColliders that builds each object anew, with no owner entity.
SyncColliders_reown(objects, handles, i, t, model) ==
    [objects |-> [h \in DOMAIN objects |->
                     IF \E k \in i..Len(handles) : handles[k] = h
                     THEN [objects[h] EXCEPT !.position = Transform_isometry(t),
                                             !.data = 0]
                     ELSE objects[h]],
     panic   |-> FALSE]

\* SyncColliders with set_shape left out: the poses are written, the
\* shapes kept.
SyncColliders_pose_only(objects, handles, i, t, model) ==
    [objects |-> [h \in DOMAIN objects |->
                     IF \E k \in i..Len(handles) : handles[k] = h
                     THEN [objects[h] EXCEPT !.position = Transform_isometry(t)]
                     ELSE objects[h]],
     panic   |-> FALSE]

\* The loop over the ColliderGroup's handles from index i on:
\* get_mut(handle).unwrap().set_position, then mesh_colliders[i] and
\* set_shape.  A missing handle or an index past the model's colliders
\* panics, with the writes made so far kept.
RECURSIVE SyncColliders(_, _, _, _, _)
SyncColliders(objects, handles, i, t, model) ==
    IF i > Len(handles) THEN [objects |-> objects, panic |-> FALSE]
    ELSE IF handles[i] \notin DOMAIN objects
    THEN [objects |-> objects, panic |-> TRUE]
    ELSE LET posed == [objects EXCEPT
                          ![handles[i]].position = Transform_isometry(t)]
         IN  IF i > Len(model.mesh_colliders)
             THEN [objects |-> posed, panic |-> TRUE]
             ELSE SyncColliders(
                      [posed EXCEPT ![handles[i]].shape =
                          TriMesh_scaled(model.mesh_colliders[i],
                                         Transform_scale(t))],
                      handles, i + 1, t, model)

\* The error update_entity_world_transform returns for an entity of the
\* store, "" when it goes on to the loop.
update_entity_world_transform_err(entity) ==
    IF ~IsSome(world[entity].transform) THEN "ComponentMissing"
    ELSE IF ~IsSome(world[entity].model_ident) THEN "ComponentMissing"
    ELSE IF Unwrap(world[entity].model_ident) \notin LoadedModels
    THEN "ModelNotFound"
    ELSE IF ~IsSome(world[entity].collider_group) THEN "ComponentMissing"
    ELSE ""

\* History: the entity and the position its first collider had before, when
\* the loop ran to its end and gave that collider another position.
Reposed(entity, done) ==
    LET handles == Unwrap(world[entity].collider_group)
    IN  IF /\ ~done.panic
           /\ handles # << >>
           /\ done.objects[handles[1]].position
                  # collision_world[handles[1]].position
        THEN Some([entity    |-> entity,
                   from      |-> collision_world[handles[1]].position,
                   refreshed |-> FALSE])
        ELSE None

update_result(entity, res, err) ==
    [op |-> "update_entity_world_transform", entity |-> entity,
     res |-> res, err |-> err]

update_entity_world_transform(entity) ==
    /\ ~panicked
    /\ IF entity \notin Entities
       THEN /\ ret' = update_result(entity, "Ok", "")
            /\ moved' = None
            /\ UNCHANGED << collision_world, panicked >>
       ELSE LET err == update_entity_world_transform_err(entity)
            IN  IF err # ""
                THEN /\ ret' = update_result(entity, "Err", err)
                     /\ moved' = None
                     /\ UNCHANGED << collision_world, panicked >>
                ELSE LET done == SyncColliders(
                                     collision_world,
                                     Unwrap(world[entity].collider_group), 1,
                                     Unwrap(world[entity].transform),
                                     models[Unwrap(world[entity].model_ident)])
                     IN  /\ collision_world' = done.objects
                         /\ panicked' = done.panic
                         /\ moved' = Reposed(entity, done)
                         /\ ret' = update_result(
                                       entity,
                                       IF done.panic THEN "panic" ELSE "Ok",
                                       "")
    /\ UNCHANGED << models, materials, world, broad_phase, render_pass >>

---------------------------------------------------------------------------
(* World::update_collision_world and World::raycast.                       *)

\* CollisionWorld::update: the broad phase takes in every object's current
\* bounding box (objects added since the last update get their proxy now).
\* update_collision_world that creates the proxies of new objects and
\* leaves the boxes of the existing ones as they are.
update_collision_world_new_only ==
    /\ ~panicked
    /\ broad_phase' = [h \in DOMAIN collision_world |->
                          IF IsSome(broad_phase[h]) THEN broad_phase[h]
                          ELSE Some(TriMesh_aabb(collision_world[h].position,
                                                 collision_world[h].shape))]
    /\ ret' = [op |-> "update_collision_world"]
    /\ moved' = IF IsSome(moved)
                THEN Some([Unwrap(moved) EXCEPT !.refreshed = TRUE])
                ELSE None
    /\ UNCHANGED << models, materials, world, collision_world, render_pass,
                    panicked >>

update_collision_world ==
    /\ ~panicked
    /\ broad_phase' = [h \in DOMAIN collision_world |->
                          Some(TriMesh_aabb(collision_world[h].position,
                                            collision_world[h].shape))]
    /\ ret' = [op |-> "update_collision_world"]
    /\ moved' = IF IsSome(moved)
                THEN Some([Unwrap(moved) EXCEPT !.refreshed = TRUE])
                ELSE None
    /\ UNCHANGED << models, materials, world, collision_world, render_pass,
                    panicked >>

\* Interferences without the collision-groups test.
Interferences_any_group(ray, max_toi, groups) ==
    { h \in DOMAIN collision_world :
        /\ IsSome(broad_phase[h])
        /\ IsSome(AABB_toi_with_ray(Unwrap(broad_phase[h]), ray, max_toi))
        /\ IsSome(TriMesh_toi_with_ray(collision_world[h].shape,
                                       collision_world[h].position,
                                       ray, max_toi)) }

\* The objects first_interference_with_ray can report: the broad phase's
\* box for the object is crossed by the ray, the object's groups admit the
\* query's, and the ray hits the object's shape at its current position.
Interferences(ray, max_toi, groups) ==
    { h \in DOMAIN collision_world :
        /\ IsSome(broad_phase[h])
        /\ IsSome(AABB_toi_with_ray(Unwrap(broad_phase[h]), ray, max_toi))
        /\ CollisionGroups_can_interact_with_groups(
               collision_world[h].collision_groups, groups)
        /\ IsSome(TriMesh_toi_with_ray(collision_world[h].shape,
                                       collision_world[h].position,
                                       ray, max_toi)) }

\* raycast: the owner of one interfering object (which one the collision
\* world's traversal order decides), or None when there is none.
raycast_result(ray, max_toi, hit) ==
    [op |-> "raycast", ray |-> ray, max_toi |-> max_toi, hit |-> hit]

\* raycast that falls back to the entity pushed last when nothing is hit.
raycast_or_last(ray, max_toi) ==
    LET hits == Interferences(ray, max_toi, CollisionGroups_new)
    IN  /\ ~panicked
        /\ IF hits = {}
           THEN ret' = raycast_result(ray, max_toi,
                           IF world = << >> THEN None ELSE Some(Len(world)))
           ELSE \E h \in hits :
                    ret' = raycast_result(ray, max_toi,
                                          Some(collision_world[h].data))
        /\ UNCHANGED << models, materials, world, collision_world,
                        broad_phase, render_pass, panicked, moved >>

raycast(ray, max_toi) ==
    LET hits == Interferences(ray, max_toi, CollisionGroups_new)
    IN  /\ ~panicked
        /\ IF hits = {}
           THEN ret' = raycast_result(ray, max_toi, None)
           ELSE \E h \in hits :
                    ret' = raycast_result(ray, max_toi,
                                          Some(collision_world[h].data))
        /\ UNCHANGED << models, materials, world, collision_world,
                        broad_phase, render_pass, panicked, moved >>

---------------------------------------------------------------------------
(* World::ensure_models_and_materials and World::render.                   *)

\* The entities of set S in the order the query visits them.
RECURSIVE Ascending(_)
Ascending(S) ==
    IF S = {} THEN << >>
    ELSE Append(Ascending(S \ {Max(S)}), Max(S))

\* The ModelIdents, one per entity that holds one, that are not loaded.
models_not_found ==
    LET es == Ascending({ e \in Entities :
                   /\ IsSome(world[e].model_ident)
                   /\ Unwrap(world[e].model_ident) \notin LoadedModels })
    IN  [i \in DOMAIN es |-> Unwrap(world[es[i]].model_ident)]

\* materials_not_found that looks no MaterialIdent up.
materials_not_found_unchecked == << >>

materials_not_found ==
    LET es == Ascending({ e \in Entities :
                   /\ IsSome(world[e].material_ident)
                   /\ Unwrap(world[e].material_ident) \notin materials })
    IN  [i \in DOMAIN es |-> Unwrap(world[es[i]].material_ident)]

\* ensure_models_and_materials that fails on the first name not found.
ensure_models_and_materials_first ==
    IF Len(models_not_found) > 0
    THEN [op |-> "render", res |-> "Err",
          models |-> << models_not_found[1] >>, materials |-> << >>]
    ELSE IF Len(materials_not_found) > 0
    THEN [op |-> "render", res |-> "Err",
          models |-> << >>, materials |-> << materials_not_found[1] >>]
    ELSE [op |-> "render", res |-> "Ok", models |-> << >>, materials |-> << >>]

\* The result of ensure_models_and_materials: Ok, or one error that lists
\* the names not found.
ensure_models_and_materials ==
    IF Len(models_not_found) > 0 \/ Len(materials_not_found) > 0
    THEN [op |-> "render", res |-> "Err",
          models |-> models_not_found, materials |-> materials_not_found]
    ELSE [op |-> "render", res |-> "Ok", models |-> << >>, materials |-> << >>]

\* draw_model_instanced from mesh i on: the material of each mesh is
\* model.materials[mesh.material], an index that panics out of range.
RECURSIVE draw_model_instanced(_, _, _, _)
draw_model_instanced(calls, entity, model, i) ==
    IF i > Len(model.meshes) THEN [calls |-> calls, panic |-> FALSE]
    ELSE IF model.meshes[i].material + 1 > Len(model.materials)
    THEN [calls |-> calls, panic |-> TRUE]
    ELSE draw_model_instanced(
             Append(calls,
                    [call |-> "draw_mesh_instanced", entity |-> entity,
                     mesh |-> i,
                     material |-> model.materials[model.meshes[i].material + 1]]),
             entity, model, i + 1)

\* draw_model_instanced_with_material from mesh i on.
RECURSIVE draw_model_instanced_with_material(_, _, _, _, _)
draw_model_instanced_with_material(calls, entity, model, material, i) ==
    IF i > Len(model.meshes) THEN [calls |-> calls, panic |-> FALSE]
    ELSE draw_model_instanced_with_material(
             Append(calls,
                    [call |-> "draw_mesh_instanced", entity |-> entity,
                     mesh |-> i, material |-> material]),
             entity, model, material, i + 1)

\* One turn of render's loop for `entity`: bind its Transform's buffer and
\* draw its model, with its own material if it has one.
draw_entity(calls, store, entity) ==
    LET e == store[entity]
        bound == Append(calls, [call |-> "bind_buffer", entity |-> entity,
                                write |-> Transform_buffer_writes(
                                              Unwrap(e.transform))])
        flushed == [store EXCEPT ![entity].transform =
                       Some(Transform_buffer(Unwrap(e.transform)))]
        ident == Unwrap(e.model_ident)
    IN  IF ident \notin LoadedModels
        THEN [calls |-> bound, world |-> flushed, panic |-> TRUE]
        ELSE IF IsSome(e.material_ident)
        THEN IF Unwrap(e.material_ident) \notin materials
             THEN [calls |-> bound, world |-> flushed, panic |-> TRUE]
             ELSE LET drawn == draw_model_instanced_with_material(
                                   Append(bound,
                                       [call |-> "draw_model_with_material",
                                        entity |-> entity, model |-> ident,
                                        material |-> Unwrap(e.material_ident)]),
                                   entity, models[ident],
                                   Unwrap(e.material_ident), 1)
                  IN  [calls |-> drawn.calls, world |-> flushed,
                       panic |-> drawn.panic]
        ELSE LET drawn == draw_model_instanced(
                              Append(bound,
                                  [call |-> "draw_model", entity |-> entity,
                                   model |-> ident]),
                              entity, models[ident], 1)
             IN  [calls |-> drawn.calls, world |-> flushed,
                  panic |-> drawn.panic]

\* render's loop over the entities that have a Transform and a ModelIdent,
\* from `entity` on; it stops at the first panic.
RECURSIVE draw_entities(_, _, _)
draw_entities(calls, store, entity) ==
    IF entity > Len(store)
    THEN [calls |-> calls, world |-> store, panic |-> FALSE]
    ELSE IF ~IsSome(store[entity].transform)
            \/ ~IsSome(store[entity].model_ident)
    THEN draw_entities(calls, store, entity + 1)
    ELSE LET one == draw_entity(calls, store, entity)
         IN  IF one.panic THEN one
             ELSE draw_entities(one.calls, one.world, entity + 1)

render ==
    LET ensured == ensure_models_and_materials
    IN  /\ ~panicked
        /\ moved' = None
        /\ IF ensured.res = "Err"
           THEN /\ ret' = ensured
                /\ render_pass' = << >>
                /\ UNCHANGED << world, panicked >>
           ELSE LET drawn == draw_entities(<< >>, world, 1)
                IN  /\ render_pass' = drawn.calls
                    /\ world' = drawn.world
                    /\ panicked' = drawn.panic
                    /\ ret' = [ensured EXCEPT
                                  !.res = IF drawn.panic THEN "panic" ELSE "Ok"]
        /\ UNCHANGED << models, materials, collision_world, broad_phase >>

---------------------------------------------------------------------------
(* Transform's own methods, called on the Transform `transform`.           *)

set_position(position) ==
    /\ setters_since < MaxSetters
    /\ transform' = Transform_set_position(transform, position)
    /\ setters_since' = setters_since + 1
    /\ ret' = [op |-> "set_position"]
    /\ UNCHANGED << gpu_writes, world_vars, engine_vars, geometry_vars, noder_vars >>

set_rotation(rotation) ==
    /\ setters_since < MaxSetters
    /\ transform' = Transform_set_rotation(transform, rotation)
    /\ setters_since' = setters_since + 1
    /\ ret' = [op |-> "set_rotation"]
    /\ UNCHANGED << gpu_writes, world_vars, engine_vars, geometry_vars, noder_vars >>

set_scale(scale) ==
    /\ setters_since < MaxSetters
    /\ transform' = Transform_set_scale(transform, scale)
    /\ setters_since' = setters_since + 1
    /\ ret' = [op |-> "set_scale"]
    /\ UNCHANGED << gpu_writes, world_vars, engine_vars, geometry_vars, noder_vars >>

buffer ==
    /\ gpu_writes < MaxGpuWrites
    /\ gpu_writes' = gpu_writes
                     + (IF Transform_buffer_writes(transform) THEN 1 ELSE 0)
    /\ transform' = Transform_buffer(transform)
    /\ setters_since' = 0
    /\ ret' = [op |-> "buffer"]
    /\ UNCHANGED << world_vars, engine_vars, geometry_vars, noder_vars >>

---------------------------------------------------------------------------
(* The inputs the calls are made with.                                     *)

Positions == { Vec(0, 0), Vec(4, 0) }

Rotations == { 0, 1 }

Scales == { Vec(1, 1), Vec(2, 1) }

\* (name, path) pairs given to load_model; "block" can be loaded again
\* from a file with no submesh.
LoadInputs ==
    { << "block", "cube.obj" >>, << "pizza_box", "pizza.obj" >>,
      << "block", "empty.obj" >> }

\* Component tuples given to push_entity: the two of Engine::new, one with
\* a CollisionGroups component, and two that lack a component.
PushInputs ==
    { Components(Some(Transform_new), Some("block"), None, None),
      Components(Some(Transform_set_position(Transform_new, Vec(4, 0))),
                 Some("block"), None, None),
      Components(Some(Transform_new), Some("pizza_box"), None,
                 Some(CollisionGroups_hidden)),
      Components(None, Some("block"), None, None),
      Components(Some(Transform_new), None, None, None) }

\* (position, rotation, scale) triples the inspector writes back.
InspectInputs ==
    { << Vec(4, 0), 0, Vec(1, 1) >>, << Vec(0, 0), 1, Vec(2, 1) >> }

\* Picking rays start at z = 10 above the x positions used and run to -z.
Rays == { [origin |-> Vec(p.x, 10)] : p \in Positions }

MaxTois == { 5, 20 }

\* What the render specification loads and pushes: entities with and
\* without a MaterialIdent, one without a Transform, and a model file that
\* defines no material.
RenderLoadInputs ==
    { << "block", "cube.obj" >>, << "block", "plain.obj" >>,
      << "pizza_box", "pizza.obj" >> }

RenderPushInputs ==
    { Components(Some(Transform_new), Some("block"), None, None),
      Components(Some(Transform_set_position(Transform_new, Vec(4, 0))),
                 Some("pizza_box"), Some("gold"), None),
      Components(None, Some("block"), Some("wood"), None) }

RenderInspectInputs == { << Vec(0, 0), 1, Vec(2, 1) >> }

---------------------------------------------------------------------------
(* Specifications.                                                         *)

\* Registration, pose edits, re-sync, refresh and picking: the calls the
\* engine makes on its World.
Next ==
    \/ \E l \in LoadInputs : load_model(l[1], l[2]) /\ UNCHANGED off_world_vars
    \/ \E c \in PushInputs : push_entity(c) /\ UNCHANGED off_world_vars
    \/ \E e \in Entities, i \in InspectInputs :
           inspect_transform(e, i[1], i[2], i[3]) /\ UNCHANGED off_world_vars
    \/ \E e \in Entities \cup {ForeignEntity} :
           update_entity_world_transform(e) /\ UNCHANGED off_world_vars
    \/ update_collision_world /\ UNCHANGED off_world_vars
    \/ \E r \in Rays, m \in MaxTois : raycast(r, m) /\ UNCHANGED off_world_vars

Spec == Init /\ [][Next]_vars

\* Component edits through the entity's Entry, and the re-sync.
SyncPushInputs ==
    { Components(Some(Transform_new), Some("block"), None, None),
      Components(Some(Transform_set_position(Transform_new, Vec(4, 0))),
                 Some("pizza_box"), None, None) }

SyncNext ==
    \/ \E l \in LoadInputs : load_model(l[1], l[2]) /\ UNCHANGED off_world_vars
    \/ \E c \in SyncPushInputs : push_entity(c) /\ UNCHANGED off_world_vars
    \/ \E e \in Entities, i \in InspectInputs :
           inspect_transform(e, i[1], i[2], i[3]) /\ UNCHANGED off_world_vars
    \/ \E e \in Entities, n \in ModelNames :
           inspect_model(e, n) /\ UNCHANGED off_world_vars
    \/ \E e \in Entities, c \in ComponentTypes :
           remove_component(e, c) /\ UNCHANGED off_world_vars
    \/ \E e \in Entities \cup {ForeignEntity} :
           update_entity_world_transform(e) /\ UNCHANGED off_world_vars

SyncSpec == Init /\ [][SyncNext]_vars

\* Loading, pushing, editing and rendering.
RenderNext ==
    \/ \E l \in RenderLoadInputs :
           load_model(l[1], l[2]) /\ UNCHANGED off_world_vars
    \/ \E m \in MaterialNames :
           load_material_raw(m) /\ UNCHANGED off_world_vars
    \/ \E c \in RenderPushInputs : push_entity(c) /\ UNCHANGED off_world_vars
    \/ \E e \in Entities, i \in RenderInspectInputs :
           inspect_transform(e, i[1], i[2], i[3]) /\ UNCHANGED off_world_vars
    \/ render /\ UNCHANGED off_world_vars

RenderSpec == Init /\ [][RenderNext]_vars

\* One Transform and its methods.
TransformNext ==
    \/ \E p \in Positions : set_position(p)
    \/ \E r \in Rotations : set_rotation(r)
    \/ \E s \in Scales : set_scale(s)
    \/ buffer

TransformSpec == Init /\ [][TransformNext]_vars

---------------------------------------------------------------------------
(* Geometry's own methods, called on the Geometry `geometry`.              *)

\* Geometry::new on the submeshes of an asset file.
geometry_new(path) ==
    /\ world = << >>
    /\ geometry' = Geometry_new(Asset(path).models)
    /\ ret' = [op |-> "Geometry_new", path |-> path]
    /\ UNCHANGED << world_vars, transform_vars, engine_vars, noder_vars >>

\* scaled that scales the receiver itself and returns it.
geometry_scaled_in_place(scale) ==
    /\ world = << >>
    /\ geometry' = Geometry_scaled(geometry, scale)
    /\ ret' = [op |-> "scaled", scale |-> scale,
               geometry |-> Geometry_scaled(geometry, scale)]
    /\ UNCHANGED << world_vars, transform_vars, engine_vars, noder_vars >>

\* geometry.scaled(scale): the receiver is borrowed, the result returned.
geometry_scaled(scale) ==
    /\ world = << >>
    /\ ret' = [op |-> "scaled", scale |-> scale,
               geometry |-> Geometry_scaled(geometry, scale)]
    /\ UNCHANGED << geometry, world_vars, transform_vars, engine_vars, noder_vars >>

\* geometry.toi_and_normal_with_ray(m, ray, max_toi, solid)
geometry_toi_and_normal_with_ray(m, ray, max_toi) ==
    /\ world = << >>
    /\ ret' = [op |-> "toi_and_normal_with_ray", m |-> m, ray |-> ray,
               max_toi |-> max_toi,
               hit |-> Geometry_toi_and_normal_with_ray(geometry, m, ray,
                                                        max_toi)]
    /\ UNCHANGED << geometry, world_vars, transform_vars, engine_vars, noder_vars >>

\* The asset files Geometry::new is given, the scale vectors and the poses
\* of the ray casts.
GeometryPaths ==
    { "cube.obj", "empty.obj", "rails.obj", "nest.obj", "steps.obj" }

GeometryScales == { Vec(1, 1), Vec(2, 1), Vec(1, 3), Vec(2, 3) }

GeometryPoses ==
    { [translation |-> p, rotation |-> UnitQuaternion(r)] :
        p \in Positions, r \in Rotations }

GeometryLoadInputs == { << "block", "cube.obj" >>, << "pizza_box", "pizza.obj" >> }

\* A Geometry and its methods, and the World calls that scale the
\* registry's colliders.
GeometryNext ==
    \/ \E path \in GeometryPaths : geometry_new(path)
    \/ \E s \in GeometryScales : geometry_scaled(s)
    \/ \E m \in GeometryPoses, r \in Rays, t \in MaxTois :
           geometry_toi_and_normal_with_ray(m, r, t)
    \/ \E l \in GeometryLoadInputs :
           load_model(l[1], l[2]) /\ UNCHANGED off_world_vars
    \/ \E c \in SyncPushInputs : push_entity(c) /\ UNCHANGED off_world_vars
    \/ \E e \in Entities, i \in InspectInputs :
           inspect_transform(e, i[1], i[2], i[3]) /\ UNCHANGED off_world_vars
    \/ \E e \in Entities :
           update_entity_world_transform(e) /\ UNCHANGED off_world_vars

GeometrySpec == Init /\ [][GeometryNext]_vars

---------------------------------------------------------------------------
(* main.rs: Engine::new and the frames of the main loop.  pc names the     *)
(* call of main.rs that comes next.                                        *)

\* The max_toi Engine::render gives raycast: farther than anything is.
EngineMaxToi == Max(MaxTois)

\* The components of the first entity Engine::new pushes.
EngineFirst == Components(Some(Transform_new), Some("block"), None, None)

\* The components of the second entity Engine::new pushes: a block moved
\* aside, as main.rs has it, and the same with a MaterialIdent or with a
\* ModelIdent that Engine::new loads nothing for.
EngineSecond ==
    LET aside == Some(Transform_set_position(Transform_new, Vec(4, 0)))
    IN  { Components(aside, Some("block"), None, None),
          Components(aside, Some("block"), Some("gold"), None),
          Components(aside, Some("crate"), None, None) }

\* What a step of the engine that calls nothing on World leaves alone.
engine_rest == << models, materials, world, collision_world, broad_phase,
                  render_pass, moved, ret, transform_vars, geometry_vars, noder_vars >>

\* Engine::new: world.load_model(.., name, path)?
Engine_new_load_model(at, name, path, next) ==
    /\ pc = at
    /\ load_model(name, path)
    /\ pc' = next
    /\ UNCHANGED << frame, transform_vars, geometry_vars, noder_vars >>

\* Engine::new: world.push_entity(components)?; an error ends Engine::new.
Engine_new_push_entity(at, components, next) ==
    /\ pc = at
    /\ push_entity(components)
    /\ pc' = IF push_entity_result(components, Len(world) + 1).res = "Err"
             THEN "new_failed"
             ELSE next
    /\ UNCHANGED << frame, transform_vars, geometry_vars, noder_vars >>

\* main: block_on(Engine::new(window)).unwrap() on an Err.
Engine_new_failed ==
    /\ pc = "new_failed"
    /\ ~panicked
    /\ panicked' = TRUE
    /\ UNCHANGED << pc, frame, engine_rest >>

\* Engine::new: world.update_collision_world()
Engine_new_update_collision_world ==
    /\ pc = "new_refresh"
    /\ update_collision_world
    /\ pc' = "update"
    /\ UNCHANGED << frame, transform_vars, geometry_vars, noder_vars >>

\* Engine::update that leaves the collision world as it is.
Engine_update_idle ==
    /\ pc = "update"
    /\ ~panicked
    /\ frame' = NoFrame
    /\ pc' = "frame"
    /\ UNCHANGED << panicked, engine_rest >>

\* Engine::update, the start of a frame.
Engine_update ==
    /\ pc = "update"
    /\ update_collision_world
    /\ frame' = NoFrame
    /\ pc' = "frame"
    /\ UNCHANGED << transform_vars, geometry_vars, noder_vars >>

\* Engine::render: self.state.frame()? fails and the frame ends there.
Engine_frame_error ==
    /\ pc = "frame"
    /\ ~panicked
    /\ pc' = "update"
    /\ UNCHANGED << frame, panicked, engine_rest >>

\* Engine::render: let raycast = self.world.raycast(&self.camera.ray(), ..)
Engine_raycast(ray) ==
    /\ pc = "frame"
    /\ raycast(ray, EngineMaxToi)
    /\ frame' = [frame EXCEPT !.picked = ret'.hit]
    /\ pc' = "inspect_transform"
    /\ UNCHANGED << transform_vars, geometry_vars, noder_vars >>

\* The entity whose entry the inspector shows, if any.
Inspected ==
    IF IsSome(frame.picked) /\ Unwrap(frame.picked) \in Entities
    THEN frame.picked
    ELSE None

\* The inspector left the Transform as it was (or showed none).
Engine_keep_transform ==
    /\ pc = "inspect_transform"
    /\ ~panicked
    /\ pc' = "inspect_model"
    /\ UNCHANGED << frame, panicked, engine_rest >>

\* The inspector's values differ from the Transform's: they are written
\* back and updated_transform is set.
Engine_edit_transform(position, rotation, scale) ==
    /\ pc = "inspect_transform"
    /\ IsSome(Inspected)
    /\ IsSome(world[Unwrap(Inspected)].transform)
    /\ LET t == Unwrap(world[Unwrap(Inspected)].transform)
       IN  << t.translation, t.rotation, t.scale >>
               # << position, rotation, scale >>
    /\ inspect_transform(Unwrap(Inspected), position, rotation, scale)
    /\ frame' = [frame EXCEPT !.updated_transform = TRUE, !.edited = Inspected]
    /\ pc' = "inspect_model"
    /\ UNCHANGED << transform_vars, geometry_vars, noder_vars >>

\* What follows the inspector: the re-sync if something was changed.
AfterInspector(updated_transform) ==
    IF updated_transform THEN "sync" ELSE "world_render"

\* The combo box left the model name as it was (or showed none); finding
\* the name among the loaded ones is an expect.
Engine_keep_model ==
    /\ pc = "inspect_model"
    /\ ~panicked
    /\ IF /\ IsSome(Inspected)
          /\ IsSome(world[Unwrap(Inspected)].model_ident)
          /\ Unwrap(world[Unwrap(Inspected)].model_ident) \notin LoadedModels
       THEN panicked' = TRUE /\ UNCHANGED pc
       ELSE pc' = AfterInspector(frame.updated_transform) /\ UNCHANGED panicked
    /\ UNCHANGED << frame, engine_rest >>

\* Engine_edit_model that forgets updated_transform.
Engine_edit_model_unflagged(name) ==
    /\ pc = "inspect_model"
    /\ IsSome(Inspected)
    /\ IsSome(world[Unwrap(Inspected)].model_ident)
    /\ Unwrap(world[Unwrap(Inspected)].model_ident) \in LoadedModels
    /\ name \in LoadedModels
    /\ name # Unwrap(world[Unwrap(Inspected)].model_ident)
    /\ inspect_model(Unwrap(Inspected), name)
    /\ frame' = [frame EXCEPT !.edited = Inspected]
    /\ pc' = AfterInspector(frame.updated_transform)
    /\ UNCHANGED << transform_vars, geometry_vars, noder_vars >>

\* Another loaded model was chosen in the combo box: the name is written
\* into the ModelIdent and updated_transform is set.
Engine_edit_model(name) ==
    /\ pc = "inspect_model"
    /\ IsSome(Inspected)
    /\ IsSome(world[Unwrap(Inspected)].model_ident)
    /\ Unwrap(world[Unwrap(Inspected)].model_ident) \in LoadedModels
    /\ name \in LoadedModels
    /\ name # Unwrap(world[Unwrap(Inspected)].model_ident)
    /\ inspect_model(Unwrap(Inspected), name)
    /\ frame' = [frame EXCEPT !.updated_transform = TRUE, !.edited = Inspected]
    /\ pc' = "sync"
    /\ UNCHANGED << transform_vars, geometry_vars, noder_vars >>

\* if updated_transform { world.update_entity_world_transform(raycast.unwrap())
Engine_update_entity_world_transform ==
    /\ pc = "sync"
    /\ update_entity_world_transform(Unwrap(frame.picked))
    /\ frame' = [frame EXCEPT !.synced = frame.picked]
    /\ pc' = "sync_expect"
    /\ UNCHANGED << transform_vars, geometry_vars, noder_vars >>

\* .expect("Internal err") on what update_entity_world_transform returned.
Engine_expect_update ==
    /\ pc = "sync_expect"
    /\ ~panicked
    /\ IF ret.res = "Err"
       THEN panicked' = TRUE /\ UNCHANGED pc
       ELSE pc' = "world_render" /\ UNCHANGED panicked
    /\ UNCHANGED << frame, engine_rest >>

\* self.world.render(..)
Engine_world_render ==
    /\ pc = "world_render"
    /\ render
    /\ frame' = [frame EXCEPT !.rendered = ret'.res]
    /\ pc' = "render_expect"
    /\ UNCHANGED << transform_vars, geometry_vars, noder_vars >>

\* The result of World::render logged instead of expected.
Engine_expect_render_logged ==
    /\ pc = "render_expect"
    /\ ~panicked
    /\ pc' = "submit"
    /\ UNCHANGED << frame, panicked, engine_rest >>

\* .expect("Error rendering") on what World::render returned.
Engine_expect_render ==
    /\ pc = "render_expect"
    /\ ~panicked
    /\ IF ret.res = "Err"
       THEN panicked' = TRUE /\ UNCHANGED pc
       ELSE pc' = "submit" /\ UNCHANGED panicked
    /\ UNCHANGED << frame, engine_rest >>

\* self.state.queue().submit(..): the end of Engine::render.
Engine_submit ==
    /\ pc = "submit"
    /\ ~panicked
    /\ frame' = [frame EXCEPT !.submitted = TRUE]
    /\ pc' = "update"
    /\ UNCHANGED << panicked, engine_rest >>

\* What the inspector writes back in a frame.
EngineInspectInputs == InspectInputs

EngineNext ==
    \/ Engine_new_load_model("load_block", "block", "cube.obj",
                             "load_pizza_box")
    \/ Engine_new_load_model("load_pizza_box", "pizza_box", "pizza.obj",
                             "push_first")
    \/ Engine_new_push_entity("push_first", EngineFirst, "push_second")
    \/ \E c \in EngineSecond :
           Engine_new_push_entity("push_second", c, "new_refresh")
    \/ Engine_new_failed
    \/ Engine_new_update_collision_world
    \/ Engine_update
    \/ Engine_frame_error
    \/ \E r \in Rays : Engine_raycast(r)
    \/ Engine_keep_transform
    \/ \E i \in EngineInspectInputs : Engine_edit_transform(i[1], i[2], i[3])
    \/ Engine_keep_model
    \/ \E n \in ModelNames : Engine_edit_model(n)
    \/ Engine_update_entity_world_transform
    \/ Engine_expect_update
    \/ Engine_world_render
    \/ Engine_expect_render
    \/ Engine_submit

EngineSpec == Init /\ [][EngineNext]_vars

---------------------------------------------------------------------------
(* noder: Programs as the crate builds them (a struct literal with a       *)
(* version and a storage list) and the codegen call.                       *)

MaxStorage == 4

Versions == { 330, 450 }

\* The storage entries of the crate's codegen test, and one more `in` and
\* one more `out` so that each section can hold two entries.
StorageEntries ==
    { Storage("Vec4", Location(0), "Out", "f_color"),
      Storage("Sampler", UniformBinding(0, 1), "Uniform", "s_diffuse"),
      Storage("Texture2D", UniformBinding(0, 0), "Uniform", "t_diffuse"),
      Storage("Vec2", Location(0), "In", "v_tex_coords"),
      Storage("Vec3", Location(1), "In", "v_position"),
      Storage("Vec4", Location(1), "Out", "f_normal") }

\* The storage lists of at most MaxStorage entries.
StorageLists ==
    UNION { [1..n -> StorageEntries] : n \in 0..MaxStorage }

\* The state after `Program { version, storage }` has been built.
NoderInit ==
    /\ models = << >>
    /\ materials = {}
    /\ world = << >>
    /\ collision_world = << >>
    /\ broad_phase = << >>
    /\ render_pass = << >>
    /\ ret = NoCall
    /\ panicked = FALSE
    /\ moved = None
    /\ transform = Transform_new
    /\ gpu_writes = 0
    /\ setters_since = 0
    /\ pc = "load_block"
    /\ frame = NoFrame
    /\ geometry = Geometry_new(<< >>)
    /\ program \in { Program(v, s) : v \in Versions, s \in StorageLists }

\* program.codegen()
codegen ==
    /\ ret' = [op |-> "codegen", source |-> Program_codegen(program)]
    /\ UNCHANGED << program, world_vars, transform_vars, engine_vars,
                    geometry_vars >>

NoderNext == codegen

NoderSpec == NoderInit /\ [][NoderNext]_vars

---------------------------------------------------------------------------
(* Registration on its own: models are loaded, entities pushed with posed, *)
(* turned and scaled Transforms, and the scene is rendered.                *)

\* A Transform set to a position, a rotation and a scale.
Transform_at(position, rotation, scale) ==
    Transform_set_scale(
        Transform_set_rotation(
            Transform_set_position(Transform_new, position), rotation),
        scale)

RegisterPushInputs ==
    { Components(Some(Transform_new), Some("block"), None, None),
      Components(Some(Transform_at(Vec(4, 0), 1, Vec(2, 1))),
                 Some("pizza_box"), None, Some(CollisionGroups_hidden)),
      Components(Some(Transform_at(Vec(0, 0), 0, Vec(2, 1))),
                 Some("block"), None, None),
      Components(None, Some("block"), None, None),
      Components(Some(Transform_new), None, None, None) }

RegisterNext ==
    \/ \E l \in LoadInputs : load_model(l[1], l[2]) /\ UNCHANGED off_world_vars
    \/ \E c \in RegisterPushInputs : push_entity(c) /\ UNCHANGED off_world_vars
    \/ render /\ UNCHANGED off_world_vars

RegisterSpec == Init /\ [][RegisterNext]_vars

---------------------------------------------------------------------------
(* Properties of push_entity.                                              *)

\* The step is a push_entity call: only push_entity adds an entity.
PushStep == ret'.op = "push_entity" /\ Len(world') = Len(world) + 1

\* C1: after a successful push_entity of an entity whose model has N
\* submeshes, the entity's ColliderGroup holds exactly N handles and the
\* collision world holds exactly N objects more than before.
C1_PushRegistersOnePerSubmesh ==
    [][ (PushStep /\ ret'.res = "Ok") =>
          LET pushed == world'[ret'.entity]
              N == Len(models[Unwrap(pushed.model_ident)].mesh_colliders)
          IN  /\ Len(Unwrap(pushed.collider_group)) = N
              /\ Len(collision_world') = Len(collision_world) + N ]_vars

\* A two-submesh model was pushed into a collision world that already held
\* objects.
C1_Witness ==
    /\ ret.op = "push_entity" /\ ret.res = "Ok"
    /\ Len(Unwrap(world[ret.entity].collider_group)) = 2
    /\ Len(collision_world) > 2

\* C2: push_entity with a ModelIdent that is not in the registry returns an
\* error and leaves the collision world with exactly the objects it had.
C2_UnknownModelRegistersNothing ==
    [][ (/\ PushStep
         /\ IsSome(world'[ret'.entity].model_ident)
         /\ Unwrap(world'[ret'.entity].model_ident) \notin LoadedModels) =>
          /\ ret'.res = "Err"
          /\ IsSome(world'[ret'.entity].transform) => ret'.err = "ModelNotFound"
          /\ collision_world' = collision_world
          /\ broad_phase' = broad_phase ]_vars

\* push_entity failed on an unknown model while the collision world held
\* objects of an earlier entity.
C2_Witness ==
    /\ ret.op = "push_entity" /\ ret.err = "ModelNotFound"
    /\ Len(collision_world) > 0

---------------------------------------------------------------------------
(* Properties of update_entity_world_transform.                            *)

\* The last call was update_entity_world_transform.
Updated == ret.op = "update_entity_world_transform"

\* C3: when update_entity_world_transform(entity) returns Ok, the object of
\* every handle i of the entity's ColliderGroup has the entity's current
\* isometry as its position and submesh i's collider of the entity's
\* current model, scaled by the current scale, as its shape.
C3_UpdateWritesPoseAndShape ==
    (Updated /\ ret.res = "Ok" /\ ret.entity \in Entities) =>
        LET e == world[ret.entity]
            t == Unwrap(e.transform)
            colliders == models[Unwrap(e.model_ident)].mesh_colliders
            handles == Unwrap(e.collider_group)
        IN  \A i \in DOMAIN handles :
                /\ i \in DOMAIN colliders
                /\ collision_world[handles[i]].position = Transform_isometry(t)
                /\ collision_world[handles[i]].shape
                       = TriMesh_scaled(colliders[i], Transform_scale(t))

\* A two-collider entity was re-synced after the inspector turned and
\* scaled it.
C3_Witness ==
    /\ Updated /\ ret.res = "Ok" /\ ret.entity \in Entities
    /\ Len(Unwrap(world[ret.entity].collider_group)) = 2
    /\ Unwrap(world[ret.entity].transform).scale = Vec(2, 1)
    /\ Unwrap(world[ret.entity].transform).rotation = 1

\* The entity has a Transform, a ModelIdent and a ColliderGroup.
HasComponents(entity) ==
    /\ IsSome(world[entity].transform)
    /\ IsSome(world[entity].model_ident)
    /\ IsSome(world[entity].collider_group)

\* The entity's ModelIdent names a loaded model.
ModelResolves(entity) ==
    /\ IsSome(world[entity].model_ident)
    /\ Unwrap(world[entity].model_ident) \in LoadedModels

\* C4: update_entity_world_transform returns an error whenever
\* the entity lacks one of the three components or its ModelIdent does not
\* resolve, and Ok only when all three are present and the model resolves.
C4_UpdateFailsUnlessReady ==
    Updated =>
        LET ready == /\ ret.entity \in Entities
                     /\ HasComponents(ret.entity)
                     /\ ModelResolves(ret.entity)
        IN  /\ ~ready => ret.res = "Err"
            /\ ret.res = "Ok" => ready

---------------------------------------------------------------------------
(* Properties of raycast.                                                  *)

\* The objects whose shape, at its current position, the ray reaches within
\* max_toi and whose groups admit the query's.
Hits(ray, max_toi) ==
    { h \in DOMAIN collision_world :
        /\ CollisionGroups_can_interact_with_groups(
               collision_world[h].collision_groups, CollisionGroups_new)
        /\ IsSome(TriMesh_toi_with_ray(collision_world[h].shape,
                                       collision_world[h].position,
                                       ray, max_toi)) }

\* The owners of the objects the ray reaches.
HitOwners(ray, max_toi) == { collision_world[h].data : h \in Hits(ray, max_toi) }

\* The broad phase holds, for every object, the box of its current shape at
\* its current position: update_collision_world ran after the last change.
Fresh ==
    \A h \in DOMAIN collision_world :
        broad_phase[h] = Some(TriMesh_aabb(collision_world[h].position,
                                           collision_world[h].shape))

\* A raycast step taken after update_entity_world_transform gave an
\* entity's colliders a new pose.
RaycastAfterMove == IsSome(moved) /\ ret'.op = "raycast"

\* The ray runs along the entity's new position, reaches its collider and
\* no other entity's.
AlongNew(call) ==
    LET m == Unwrap(moved)
        t == Unwrap(world[m.entity].transform)
    IN  /\ call.ray.origin.x = t.translation.x
        /\ HitOwners(call.ray, call.max_toi) = { m.entity }

\* The ray runs along the position the entity has left, and the entity's
\* colliders no longer reach it.
AlongOld(call) ==
    LET m == Unwrap(moved)
        t == Unwrap(world[m.entity].transform)
    IN  /\ call.ray.origin.x = m.from.translation.x
        /\ m.from.translation # t.translation
        /\ m.entity \notin HitOwners(call.ray, call.max_toi)

\* The entity's colliders were in the broad phase before they were re-posed.
Indexed(entity) ==
    \A h \in DOMAIN collision_world :
        collision_world[h].data = entity => IsSome(broad_phase[h])

\* C5 as stated: after update_entity_world_transform re-posed an entity
\* (whose colliders the index already held), a raycast along its new
\* position returns the entity and a raycast along its old position does
\* not.
C5_RaycastObservesUpdateAtOnce ==
    [][ RaycastAfterMove =>
          /\ (Indexed(Unwrap(moved).entity) /\ AlongNew(ret'))
                 => ret'.hit = Some(Unwrap(moved).entity)
          /\ AlongOld(ret') => ret'.hit # Some(Unwrap(moved).entity) ]_vars

\* C5, amended: after update_entity_world_transform re-posed an entity and
\* update_collision_world then refreshed the index, a raycast along the new
\* position returns the entity and a raycast along the old position does
\* not; before the refresh the ray along the old position already misses
\* the entity.
C5_RaycastObservesUpdateAfterRefresh ==
    [][ RaycastAfterMove =>
          /\ (Unwrap(moved).refreshed /\ AlongNew(ret'))
                 => ret'.hit = Some(Unwrap(moved).entity)
          /\ AlongOld(ret') => ret'.hit # Some(Unwrap(moved).entity) ]_vars

\* A re-posed entity was picked along its new position after the refresh.
C5_Witness ==
    /\ IsSome(moved) /\ Unwrap(moved).refreshed
    /\ ret.op = "raycast" /\ AlongNew(ret)
    /\ Unwrap(moved).from.translation
           # Unwrap(world[Unwrap(moved).entity].transform).translation
    /\ ret.hit = Some(Unwrap(moved).entity)

\* C6: raycast on a World whose collision world holds no object returns
\* None, whatever the ray and the maximal distance.
C6_EmptyIndexNoHit ==
    (ret.op = "raycast" /\ collision_world = << >>) => ret.hit = None

\* A raycast that found the index empty although an entity was pushed.
C6_Witness ==
    /\ ret.op = "raycast" /\ collision_world = << >>
    /\ world # << >> /\ ret.max_toi = 20 /\ ret.hit = None

\* C7 as stated: raycast returns Some(e) only for the owner e, an entity of
\* the store, of an object the ray reaches within max_toi; when the ray
\* reaches exactly one object it returns that object's owner.
C7_RaycastReturnsOwner ==
    ret.op = "raycast" =>
        /\ IsSome(ret.hit) =>
              /\ Unwrap(ret.hit) \in Entities
              /\ Unwrap(ret.hit) \in HitOwners(ret.ray, ret.max_toi)
        /\ Cardinality(Hits(ret.ray, ret.max_toi)) = 1
              => ret.hit \in { Some(e) : e \in HitOwners(ret.ray, ret.max_toi) }

\* C7, amended: raycast returns Some(e) only for the owner e, an entity of
\* the store, of an object the ray reaches within max_toi; when
\* update_collision_world has run since the objects were added or re-posed
\* and the ray reaches some object, it returns the owner of one (of the
\* one, when there is exactly one), whatever the entity's components.
C7_RaycastReturnsOwnerWhenFresh ==
    ret.op = "raycast" =>
        /\ IsSome(ret.hit) =>
              /\ Unwrap(ret.hit) \in Entities
              /\ Unwrap(ret.hit) \in HitOwners(ret.ray, ret.max_toi)
        /\ (Fresh /\ Hits(ret.ray, ret.max_toi) # {})
              => ret.hit \in { Some(e) : e \in HitOwners(ret.ray, ret.max_toi) }

\* The ray reached exactly one of several objects of a refreshed index and
\* its owner was returned.
C7_Witness ==
    /\ ret.op = "raycast" /\ Fresh
    /\ Len(collision_world) >= 3
    /\ Cardinality(Hits(ret.ray, ret.max_toi)) = 1
    /\ IsSome(ret.hit)

---------------------------------------------------------------------------
(* Properties of render.                                                   *)

\* The names the entities refer to that the registries do not hold.
UnresolvedModels ==
    { Unwrap(world[e].model_ident) : e \in
        { e \in Entities : /\ IsSome(world[e].model_ident)
                           /\ Unwrap(world[e].model_ident) \notin LoadedModels } }

UnresolvedMaterials ==
    { Unwrap(world[e].material_ident) : e \in
        { e \in Entities : /\ IsSome(world[e].material_ident)
                           /\ Unwrap(world[e].material_ident) \notin materials } }

\* The elements of a sequence.
Range(seq) == { seq[i] : i \in DOMAIN seq }

\* C8: when some entity's ModelIdent or MaterialIdent does not resolve,
\* render returns one error that names every unresolved model and every
\* unresolved material of all entities, and issues no bind or draw call.
C8_RenderReportsAllMissing ==
    (/\ ret.op = "render"
     /\ (UnresolvedModels # {} \/ UnresolvedMaterials # {})) =>
        /\ ret.res = "Err"
        /\ Range(ret.models) = UnresolvedModels
        /\ Range(ret.materials) = UnresolvedMaterials
        /\ render_pass = << >>

\* A render that found two models and a material missing.
C8_Witness ==
    /\ ret.op = "render" /\ ret.res = "Err"
    /\ Cardinality(UnresolvedModels) = 2
    /\ Cardinality(UnresolvedMaterials) >= 1
    /\ render_pass = << >>

\* The model draws of the last render pass made for `entity`.
ModelDraws(entity) ==
    { i \in DOMAIN render_pass :
        /\ render_pass[i].entity = entity
        /\ render_pass[i].call \in { "draw_model", "draw_model_with_material" } }

\* C9: when every ModelIdent and MaterialIdent resolves, render returns Ok,
\* issues exactly one model draw for each entity that has a Transform and a
\* ModelIdent and none for the others, with the entity's MaterialIdent when
\* it has one and the model's own materials otherwise, and leaves every
\* drawn Transform's dirty flag cleared.
C9_RenderDrawsEachEntityOnce ==
    (/\ ret.op = "render"
     /\ UnresolvedModels = {} /\ UnresolvedMaterials = {}) =>
        /\ ret.res = "Ok"
        /\ \A e \in Entities :
               IF IsSome(world[e].transform) /\ IsSome(world[e].model_ident)
               THEN /\ Cardinality(ModelDraws(e)) = 1
                    /\ \A i \in ModelDraws(e) :
                           IF IsSome(world[e].material_ident)
                           THEN /\ render_pass[i].call
                                       = "draw_model_with_material"
                                /\ render_pass[i].material
                                       = Unwrap(world[e].material_ident)
                           ELSE render_pass[i].call = "draw_model"
                    /\ ~Unwrap(world[e].transform).dirty
               ELSE ModelDraws(e) = {}

---------------------------------------------------------------------------
(* Properties of Transform.                                                *)

\* C10: a setter sets the dirty flag and writes nothing to the GPU buffer;
\* buffer() writes exactly when the dirty flag is set, that is exactly
\* when a setter ran since the last buffer(), once however many setters
\* ran, and clears the flag.
C10_LazyBufferWrite ==
    [][ /\ ret'.op \in { "set_position", "set_rotation", "set_scale" } =>
              /\ transform'.dirty
              /\ gpu_writes' = gpu_writes
              /\ transform'.buffer = transform.buffer
        /\ ret'.op = "buffer" =>
              /\ gpu_writes' = gpu_writes + (IF transform.dirty THEN 1 ELSE 0)
              /\ gpu_writes' = gpu_writes + (IF setters_since > 0 THEN 1 ELSE 0)
              /\ ~transform'.dirty
              /\ transform'.buffer = Transform_matrix(transform') ]_vars

\* Two setters ran after a buffer() that wrote, and nothing was written
\* since.
C10_Witness ==
    /\ ret.op \in { "set_position", "set_rotation", "set_scale" }
    /\ setters_since = 2 /\ gpu_writes = 1 /\ transform.dirty
    /\ transform.buffer # Transform_matrix(transform)

---------------------------------------------------------------------------
(* Properties of Geometry.                                                 *)

\* Every leaf box of g's tree is the box of the collider of the same index.
LeavesMatchColliders(g) ==
    /\ Len(g.bvt) = Len(g.colliders)
    /\ \A i \in 0..(Len(g.colliders) - 1) :
           Geometry_aabb_at(g, i) = TriMesh_local_aabb(g.colliders[i + 1])

\* C17: for every Geometry, built by Geometry::new or returned by scaled,
\* and every submesh index i, aabb_at(i) is the bounding box of
\* colliders[i].
C17_LeafBoxIsColliderBox ==
    /\ LeavesMatchColliders(geometry)
    /\ ret.op = "scaled" => LeavesMatchColliders(ret.geometry)


\* C18: g.scaled(s) leaves g as it was and returns a Geometry with as many
\* colliders and meshes as g; push_entity and update_entity_world_transform,
\* which scale a copy, leave the registry's models as they were.
C18_ScaledLeavesReceiver ==
    [][ /\ ret'.op = "scaled" =>
              /\ geometry' = geometry
              /\ Len(ret'.geometry.colliders) = Len(geometry.colliders)
              /\ Len(ret'.geometry.meshes) = Len(geometry.meshes)
              /\ Len(ret'.geometry.bvt) = Len(geometry.bvt)
        /\ ret'.op \in { "push_entity", "update_entity_world_transform" } =>
              models' = models ]_vars

\* A three-collider Geometry was scaled by (2, 3) into a different one.
C18_Witness ==
    /\ ret.op = "scaled" /\ ret.scale = Vec(2, 3)
    /\ Len(geometry.colliders) = 3
    /\ ret.geometry.colliders # geometry.colliders
    /\ geometry = Geometry_new(Asset("steps.obj").models)

\* The extent of a bounding box along x and along z.
Extents(aabb) == Vec(aabb.maxs.x - aabb.mins.x, aabb.maxs.z - aabb.mins.z)

\* The Geometry of the axis-aligned unit cube.
UnitCube == Geometry_new(Asset("cube.obj").models)

\* C19: scaled(k) of the unit-cube Geometry has a collider whose bounding
\* box extends, along each axis, k's component for that axis times the
\* extent of the cube's.
C19_ScaledCubeExtents ==
    (ret.op = "scaled" /\ geometry = UnitCube) =>
        LET before == Extents(TriMesh_local_aabb(geometry.colliders[1]))
            after  == Extents(TriMesh_local_aabb(ret.geometry.colliders[1]))
        IN  /\ Len(ret.geometry.colliders) = 1
            /\ after.x = ret.scale.x * before.x
            /\ after.z = ret.scale.z * before.z

\* The unit cube was scaled by a vector with two different components.
C19_Witness ==
    /\ ret.op = "scaled" /\ geometry = UnitCube /\ ret.scale = Vec(2, 3)
    /\ Extents(TriMesh_local_aabb(ret.geometry.colliders[1])) = Vec(4, 6)

\* The indices of the colliders of `geometry` that the last ray cast's ray
\* hits.
CollidersHit ==
    { i \in DOMAIN geometry.colliders :
        IsSome(TriMesh_toi_with_ray(geometry.colliders[i], ret.m, ret.ray,
                                    ret.max_toi)) }

\* C20: Geometry's ray cast returns the intersection of the lowest-index
\* collider the ray hits, and None exactly when it hits none.
C20_FirstHitInStorageOrder ==
    ret.op = "toi_and_normal_with_ray" =>
        IF CollidersHit = {} THEN ret.hit = None
        ELSE ret.hit = TriMesh_toi_with_ray(
                           geometry.colliders[Min(CollidersHit)],
                           ret.m, ret.ray, ret.max_toi)

\* The ray hit two colliders and the one reported is not the nearest.
C20_Witness ==
    /\ ret.op = "toi_and_normal_with_ray"
    /\ Cardinality(CollidersHit) = 2
    /\ \E i \in CollidersHit :
           Unwrap(TriMesh_toi_with_ray(geometry.colliders[i], ret.m, ret.ray,
                                       ret.max_toi)) < Unwrap(ret.hit)


---------------------------------------------------------------------------
(* Properties of the running engine.                                       *)

\* C11: every entity's ColliderGroup holds one handle per submesh of the
\* model its ModelIdent names, after any pushes, inspector edits of
\* Transform and model name, and update_entity_world_transform calls.
C11_OneHandlePerSubmesh ==
    \A e \in Entities :
        (/\ IsSome(world[e].collider_group)
         /\ IsSome(world[e].model_ident)
         /\ Unwrap(world[e].model_ident) \in LoadedModels) =>
            Len(Unwrap(world[e].collider_group))
                = Len(models[Unwrap(world[e].model_ident)].mesh_colliders)

\* C12: no World call removes a collision object: the number of objects
\* never decreases, every object keeps its owner and its groups, and every
\* ColliderGroup keeps its handles, so a handle names the same object after
\* update_entity_world_transform replaced its pose and shape.
C12_EntriesAreNeverRemoved ==
    [][ /\ Len(collision_world') >= Len(collision_world)
        /\ \A h \in DOMAIN collision_world :
               /\ collision_world'[h].data = collision_world[h].data
               /\ collision_world'[h].collision_groups
                      = collision_world[h].collision_groups
        /\ \A e \in Entities :
               world'[e].collider_group = world[e].collider_group ]_vars

\* update_entity_world_transform has re-posed the first entity's object,
\* which is still the first of two and still the first entity's.
C12_Witness ==
    /\ ret.op = "update_entity_world_transform" /\ ret.res = "Ok"
    /\ Len(collision_world) = 2
    /\ collision_world[1].data = 1
    /\ collision_world[1].position.translation = Vec(4, 0)
    /\ world[1].collider_group = Some(<< 1 >>)

\* The step is the raycast of a frame.
FrameRaycast == pc = "frame" /\ pc' = "inspect_transform"

\* C13: the raycast of a frame comes right after that frame's
\* update_collision_world, with no other World call in between, so every
\* object added or re-posed is refreshed when the ray is cast.
C13_RefreshBeforeRaycast ==
    [][ FrameRaycast =>
          /\ ret.op = "update_collision_world"
          /\ ret'.op = "raycast"
          /\ Fresh ]_vars

\* A frame's raycast picked the first entity where the inspector had moved
\* it to in an earlier frame.
C13_Witness ==
    /\ pc = "inspect_transform" /\ ret.op = "raycast"
    /\ ret.hit = Some(1)
    /\ ret.ray.origin.x = 4
    /\ collision_world[1].position.translation = Vec(4, 0)

\* The frame is past the inspector and the re-sync.
FrameDraws == pc \in { "world_render", "render_expect", "submit", "update" }

\* C14: when the inspector changed the picked entity's Transform or model
\* name in a frame, update_entity_world_transform is called for that entity
\* in that frame before World::render; it is called for no other entity
\* and, in a frame without a change, for none.
C14_EditIsFollowedBySync ==
    /\ IsSome(frame.synced) => frame.synced = frame.edited
    /\ frame.updated_transform <=> IsSome(frame.edited)
    /\ (FrameDraws /\ pc # "update") => frame.synced = frame.edited
    /\ frame.rendered # "none" => frame.synced = frame.edited

\* The world was drawn in a frame in which the second entity's model name
\* was changed and the entity re-synced.
C14_Witness ==
    /\ frame.rendered = "Ok"
    /\ frame.edited = Some(2) /\ frame.synced = Some(2)
    /\ world[2].model_ident = Some("pizza_box")

\* C15: when World::render fails in a frame, the queue submit of that frame
\* is not reached.
C15_NoSubmitAfterFailedRender ==
    /\ frame.submitted => frame.rendered = "Ok"
    /\ frame.rendered \in { "Err", "panic" } => pc = "render_expect"

\* World::render returned an error and the frame ended without a submit.
C15_Witness ==
    /\ frame.rendered = "Err" /\ ret.op = "render"
    /\ panicked /\ ~frame.submitted

---------------------------------------------------------------------------
(* Properties of Program::codegen.                                         *)

\* The declaration texts of the storage entries with qualifier q.
Declared(storage, q) ==
    { Storage_codegen(storage[i]) :
        i \in { j \in DOMAIN storage : storage[j].storage_qualifier = q } }

\* The positions of `source` that hold a declaration with qualifier q.
DeclarationsAt(source, q) ==
    { i \in DOMAIN source : source[i] \in Declared(program.storage, q) }

\* The storage lists that hold the entries of `storage` in another order.
Reorderings(storage) ==
    { [i \in DOMAIN storage |-> storage[f[i]]] :
        f \in { g \in [DOMAIN storage -> DOMAIN storage] :
                  \A i, j \in DOMAIN storage : g[i] = g[j] => i = j } }

\* The number of entries of `storage` that are declared as text d.
Occurrences(storage, d) ==
    Cardinality({ i \in DOMAIN storage : Storage_codegen(storage[i]) = d })

\* C21: the text codegen returns starts with the "#version" header, every
\* `in` declaration comes before every `out` declaration and every `out`
\* declaration before every `uniform` declaration, each entry of storage is
\* declared as often as it occurs, and the text is the same for every
\* permutation of the storage list.
C21_CodegenSectionsInOrder ==
    ret.op = "codegen" =>
        /\ SubSeq(ret.source, 1, 3)
               = << "#version ", ToString(program.version), "\n" >>
        /\ \A q \in { "In", "Out", "Uniform" } :
               \A i \in DeclarationsAt(ret.source, q) : 3 < i
        /\ \A i \in DeclarationsAt(ret.source, "In"),
              j \in DeclarationsAt(ret.source, "Out") : i < j
        /\ \A j \in DeclarationsAt(ret.source, "Out"),
              k \in DeclarationsAt(ret.source, "Uniform") : j < k
        /\ \A i \in DeclarationsAt(ret.source, "In"),
              k \in DeclarationsAt(ret.source, "Uniform") : i < k
        /\ \A st \in StorageEntries :
               Cardinality({ i \in DOMAIN ret.source :
                               ret.source[i] = Storage_codegen(st) })
                   = Occurrences(program.storage, Storage_codegen(st))
        /\ \A storage \in Reorderings(program.storage) :
               Program_codegen(Program(program.version, storage)) = ret.source

\* The program of the crate's test, out / uniform / uniform / in, gives the
\* text the test expects.
C21_Witness ==
    /\ ret.op = "codegen"
    /\ program.storage =
           << Storage("Vec4", Location(0), "Out", "f_color"),
              Storage("Sampler", UniformBinding(0, 1), "Uniform", "s_diffuse"),
              Storage("Texture2D", UniformBinding(0, 0), "Uniform",
                      "t_diffuse"),
              Storage("Vec2", Location(0), "In", "v_tex_coords") >>
    /\ program.version = 450
    /\ String(ret.source) =
           "#version 450\n"
           \o "\nlayout(location = 0) in vec2 v_tex_coords;\n"
           \o "\nlayout(location = 0) out vec4 f_color;\n"
           \o "\nlayout(set = 0, binding = 0) uniform texture2D t_diffuse;"
           \o "\nlayout(set = 0, binding = 1) uniform sampler s_diffuse;\n"

\* The ";" pieces of `source`.
Semicolons(source) == { i \in DOMAIN source : source[i] = ";" }

\* C30: the text codegen returns holds exactly one ";" per storage entry,
\* each directly after a declaration, for every storage list.
C30_OneSemicolonPerEntry ==
    ret.op = "codegen" =>
        /\ Cardinality(Semicolons(ret.source)) = Len(program.storage)
        /\ \A i \in Semicolons(ret.source) :
               /\ i > 1
               /\ \E st \in StorageEntries :
                      ret.source[i - 1] = Storage_codegen(st)
        /\ \A i \in DOMAIN ret.source :
               (\E st \in StorageEntries : ret.source[i] = Storage_codegen(st))
                   => /\ i < Len(ret.source)
                      /\ ret.source[i + 1] = ";"


---------------------------------------------------------------------------
(* Properties of registration.                                             *)

\* C22: after a successful push_entity the objects it added are, in
\* submesh order, the handles of the new entity's ColliderGroup, and the
\* object of submesh i has the pose of the entity's Transform, the shape of
\* collider i scaled by the Transform's scale, the entity as owner, and the
\* entity's CollisionGroups component (the default groups without one).
C22_PushedEntriesMatchEntity ==
    [][ (PushStep /\ ret'.res = "Ok") =>
          LET entity == Len(world')
              c == world'[entity]
              t == Unwrap(c.transform)
              colliders == models[Unwrap(c.model_ident)].mesh_colliders
              handles == Unwrap(c.collider_group)
          IN  /\ Len(handles) = Len(colliders)
              /\ \A i \in DOMAIN handles :
                     /\ handles[i] = Len(collision_world) + i
                     /\ collision_world'[handles[i]].position
                            = [translation |-> t.translation,
                               rotation    |-> t.rotation % 4]
                     /\ collision_world'[handles[i]].shape
                            = { Vec(p.x * t.scale.x, p.z * t.scale.z) :
                                  p \in colliders[i] }
                     /\ collision_world'[handles[i]].data = entity
                     /\ collision_world'[handles[i]].collision_groups
                            = IF IsSome(c.collision_groups)
                              THEN Unwrap(c.collision_groups)
                              ELSE CollisionGroups_new
        ]_vars

\* A pizza_box entity pushed at (4, 0), turned, scaled by (2, 1) and with a
\* CollisionGroups component: its second object is the scaled lid.
C22_Witness ==
    /\ ret.op = "push_entity"
    /\ ret.res = "Ok"
    /\ Len(collision_world) >= 2
    /\ LET o == collision_world[Len(collision_world)]
       IN  /\ o.data = ret.entity
           /\ o.shape = Box(2, 2)
           /\ o.position = [translation |-> Vec(4, 0), rotation |-> 1]
           /\ o.collision_groups = CollisionGroups_hidden
           /\ world[ret.entity].collider_group
                  = Some(<< Len(collision_world) - 1, Len(collision_world) >>)

\* C23: a push_entity that returns an error leaves the entity store as it
\* was: no entity is added.
C23_FailedPushAddsNoEntity ==
    [][ (ret'.op = "push_entity" /\ ret'.res = "Err") => world' = world ]_vars


---------------------------------------------------------------------------
(* Properties of the ColliderGroups and of update_entity_world_transform.  *)

\* Every loaded model is the one Engine::new loads under its name: no name
\* has been loaded again from another file.
EngineAssets ==
    /\ "block" \in LoadedModels => models["block"] = Model_load("cube.obj")
    /\ "pizza_box" \in LoadedModels
           => models["pizza_box"] = Model_load("pizza.obj")

\* C24: with the models as first loaded and ModelIdents changed to any
\* loaded name, update_entity_world_transform does not panic: it reads no
\* collider of the entity's model at an index the model does not have.
C24_UpdateStaysInBounds ==
    (ret.op = "update_entity_world_transform" /\ EngineAssets)
        => ret.res # "panic"

\* The handles of entity e's ColliderGroup (none without the component).
HandlesOf(e) ==
    IF IsSome(world[e].collider_group)
    THEN Unwrap(world[e].collider_group)
    ELSE << >>

\* C25: every handle of every ColliderGroup names an object of the
\* collision world that the entity owns; no handle occurs twice in one
\* group or in two groups.
C25_HandlesNameOwnObjects ==
    /\ \A e \in Entities : \A i \in DOMAIN HandlesOf(e) :
           /\ HandlesOf(e)[i] \in DOMAIN collision_world
           /\ collision_world[HandlesOf(e)[i]].data = e
           /\ \A j \in DOMAIN HandlesOf(e) :
                  HandlesOf(e)[i] = HandlesOf(e)[j] => i = j
    /\ \A e, f \in Entities :
           e # f => Range(HandlesOf(e)) \cap Range(HandlesOf(f)) = {}

\* Two entities with one and two handles, and an update_entity_world_transform
\* that has looked the second one's handles up.
C25_Witness ==
    /\ Len(world) = 2
    /\ HandlesOf(1) = << 1 >>
    /\ HandlesOf(2) = << 2, 3 >>
    /\ ret.op = "update_entity_world_transform"
    /\ ret.entity = 2
    /\ ret.res = "Ok"

\* C27: update_entity_world_transform(entity) leaves the entity store, the
\* number of objects and every object's owner and groups as they are, and
\* changes no object outside the entity's ColliderGroup; when it returns an
\* error or the entity is not in the store it changes no object.
C27_UpdateChangesOnlyOwnEntries ==
    [][ ret'.op = "update_entity_world_transform" =>
          /\ world' = world
          /\ DOMAIN collision_world' = DOMAIN collision_world
          /\ \A h \in DOMAIN collision_world :
                 /\ collision_world'[h].data = collision_world[h].data
                 /\ collision_world'[h].collision_groups
                        = collision_world[h].collision_groups
                 /\ (ret'.entity \notin Entities
                     \/ h \notin Range(HandlesOf(ret'.entity)))
                        => collision_world'[h] = collision_world[h]
          /\ (ret'.res = "Err" \/ ret'.entity \notin Entities)
                 => collision_world' = collision_world
      ]_vars

\* The call has turned entity 2 at the origin and scaled its two objects,
\* while the object of entity 1 is as it was pushed.
C27_Witness ==
    /\ ret.op = "update_entity_world_transform"
    /\ ret.entity = 2
    /\ ret.res = "Ok"
    /\ Len(world) = 2
    /\ HandlesOf(1) = << 1 >>
    /\ HandlesOf(2) = << 2, 3 >>
    /\ collision_world[1].position.translation = Vec(0, 0)
    /\ collision_world[2].position = [translation |-> Vec(0, 0), rotation |-> 1]
    /\ collision_world[3].shape = Box(2, 2)


---------------------------------------------------------------------------
(* Properties of render's draw loop.                                       *)

\* The step is a render whose validation passed, so that the loop ran.
RenderLoopStep == ret'.op = "render" /\ ret'.res # "Err"

\* C26: when render's loop runs, every entity it visits (one with a
\* Transform and a ModelIdent) has a loaded model and, if it has a
\* MaterialIdent, a loaded material; and a render that panics has not
\* stopped at the two lookups, which come right after bind_buffer.
C26_DrawLoopResolvesNames ==
    [][ RenderLoopStep =>
          /\ \A e \in Entities :
                 (IsSome(world[e].transform) /\ IsSome(world[e].model_ident))
                     => /\ Unwrap(world[e].model_ident) \in LoadedModels
                        /\ IsSome(world[e].material_ident)
                               => Unwrap(world[e].material_ident) \in materials
          /\ ret'.res = "panic"
                 => render_pass'[Len(render_pass')].call # "bind_buffer"
      ]_vars

\* A render that drew two entities, one with its model's materials and one
\* with a MaterialIdent of its own.
C26_Witness ==
    /\ ret.op = "render"
    /\ ret.res = "Ok"
    /\ Len(world) = 2
    /\ \E i \in DOMAIN render_pass : render_pass[i].call = "draw_model"
    /\ \E i \in DOMAIN render_pass :
           /\ render_pass[i].call = "draw_model_with_material"
           /\ render_pass[i].material = "gold"


---------------------------------------------------------------------------
(* Properties of the Transform's buffer and of loaded models.              *)

\* C28: whenever the Transform is not dirty, its GPU buffer holds the
\* instance matrix of its current translation, rotation and scale.
C28_CleanBufferIsCurrent ==
    ~transform.dirty => transform.buffer = Transform_matrix(transform)

\* The Transform moved to (4, 0), turned a quarter and scaled by (2, 1),
\* then flushed: the buffer holds the product of the three.
C28_Witness ==
    /\ ~transform.dirty
    /\ ret.op = "buffer"
    /\ gpu_writes >= 1
    /\ transform.translation = Vec(4, 0)
    /\ transform.rotation = 1
    /\ transform.scale = Vec(2, 1)
    /\ transform.buffer
           = [a |-> 0, b |-> 1, c |-> -2, d |-> 0, tx |-> 4, tz |-> 0]

\* C29: in every loaded model each submesh's material index is an index of
\* the model's materials list.
C29_MaterialIndexInRange ==
    \A name \in LoadedModels :
        \A i \in DOMAIN models[name].meshes :
            models[name].meshes[i].material < Len(models[name].materials)


=============================================================================
